---------------------------- MODULE Spec2Model ----------------------------
(***************************************************************************)
(* Model of the rover/controller hardware-proxy system:                    *)
(*   - shared/protocol.py     MotorCommand and FrameProtocol codecs        *)
(*   - pi/motor_controller.py MotorController (watchdog, emergency stop)   *)
(*   - pi/network_client.py   NetworkClient (rover side link session)      *)
(*   - pi/car_hardware.py     CarHardware.run (rover control loop)         *)
(*   - server/network_server.py CarConnection (frame queue, receive loop)  *)
(*                                                                         *)
(* Time is a natural number of seconds (time.time()).  A PWM duty cycle d  *)
(* (percent) is stored exactly as the integer d * 255, so that             *)
(* duty = speed / 255 * 100 is stored as speed * 100.                      *)
(***************************************************************************)
EXTENDS Integers, Sequences, FiniteSets, TLC

VARIABLES
    now,            \* time.time()
    motors,         \* the MotorController object (self.*)
    gpio,           \* state of the RPi.GPIO library and of the physical outputs
    last,           \* outcome of the last MotorController call
    writing,        \* the execute_command in progress, write by write
    wd_stop,        \* time at which the last watchdog stop returned (-1: none)
    wd_gap,         \* time from there to the start of the next watchdog stop
    pc,             \* position of CarHardware.run
    running,        \* CarHardware.running
    network,        \* the NetworkClient object (self.connected, self.socket)
    command,        \* local variable `command` of CarHardware.run
    rx,             \* what the last receive_command read from the stream
    conn_running,   \* CarConnection.running
    sock,           \* CarConnection.conn (the socket) and the position of stop()
    frame_queue,    \* CarConnection.frame_queue, oldest payload first
    rthread,        \* position of the receive thread (_receive_loop)
    frame_size,     \* local variable frame_size of _receive_loop
    frame_data,     \* local variable frame_data of _receive_loop
    arrived,        \* number of frames whose header has arrived
    events,         \* history of queue operations: put, drop, get
    codec,          \* a value taken through a codec of shared/protocol.py
    ncall,          \* outcome of the last NetworkClient call made on its own
    server,         \* the NetworkServer object and its CarConnections
    controller,     \* the ServerController object and its control loop
    sensors         \* the UltrasonicSensors object and its last call

vars == <<now, motors, gpio, last, wd_stop, wd_gap, pc, running, network, command, rx,
          conn_running, sock, frame_queue, rthread, frame_size, frame_data, arrived, events,
          codec, ncall, server, controller, sensors, writing>>

motorVars == <<motors, gpio, last, wd_stop, wd_gap>>
watchdogVars == <<wd_stop, wd_gap>>
roverVars == <<pc, running, network, command, rx>>
connVars == <<conn_running, sock, frame_queue, rthread, frame_size, frame_data, arrived, events>>

\* what the rover (MotorController, CarHardware) never touches when its
\* calls are taken as single steps
nonRoverVars == <<connVars, codec, ncall, server, controller, sensors, writing>>
\* what a CarConnection never touches
nonConnVars == <<now, motorVars, roverVars, codec, ncall, server, controller, sensors, writing>>
\* what the codec never touches
nonCodecVars == <<now, motorVars, roverVars, connVars, ncall, server, controller, sensors, writing>>
\* what a NetworkClient used on its own never touches
nonClientVars == <<now, motorVars, running, connVars, codec, server, controller, sensors, writing>>
\* what the NetworkServer never touches
nonServerVars == <<now, motorVars, roverVars, connVars, codec, ncall, controller, sensors, writing>>
\* what the ServerController's control loop never touches
nonControllerVars == <<now, motorVars, roverVars, connVars, codec, ncall, server, sensors, writing>>
\* what the UltrasonicSensors never touch
nonSensorVars == <<now, motorVars, roverVars, connVars, codec, ncall, server, controller, writing>>

---------------------------------------------------------------------------
(* Bounds of the model *)

MaxTime == 4        \* the clock stops advancing here
MaxDelay == 1       \* longest time one call may take between two clock reads
MaxFrames == 3      \* frames the rover sends on one connection
MaxGets == 3        \* get_frame calls the consumer makes
MaxConns == 3       \* connections a NetworkServer accepts in its life
MaxLines == 2       \* lines of one oracle response
MaxPolls == 2       \* polls of the echo input that read the same level

---------------------------------------------------------------------------
(* shared/protocol.py: Direction, MotorCommand *)

BACKWARD == 0
FORWARD == 1
STOP == 2

Direction == {BACKWARD, FORWARD, STOP}

None == [none |-> TRUE]

MotorCommand(ls, rs, ld, rd, dur) ==
    [left_speed |-> ls, right_speed |-> rs, left_dir |-> ld,
     right_dir |-> rd, duration_ms |-> dur]

\* an exception raised to the caller
ValueError == [error |-> "ValueError"]

\* validate(): TRUE when no ValueError is raised
validate(c) ==
    /\ 0 <= c.left_speed /\ c.left_speed <= 255
    /\ 0 <= c.right_speed /\ c.right_speed <= 255
    /\ c.left_dir \in Direction
    /\ c.right_dir \in Direction
    /\ 0 <= c.duration_ms /\ c.duration_ms <= 65535

pack_BBBBH_little_endian(a, b, c, d, h) == <<a, b, c, d, h % 256, h \div 256>>

\* struct.pack('>BBBBH', a, b, c, d, h): four bytes, then h high byte first
pack_BBBBH(a, b, c, d, h) == <<a, b, c, d, h \div 256, h % 256>>

unpack_BBBBH_low_byte_only(data) == <<data[1], data[2], data[3], data[4], data[6]>>

\* struct.unpack('>BBBBH', data)
unpack_BBBBH(data) == <<data[1], data[2], data[3], data[4], data[5] * 256 + data[6]>>

to_bytes_without_validate(c) ==
    pack_BBBBH(c.left_speed % 256, c.right_speed % 256, c.left_dir, c.right_dir,
               c.duration_ms % 65536)

to_bytes(c) ==
    IF ~validate(c)
    THEN ValueError
    ELSE pack_BBBBH(c.left_speed, c.right_speed, c.left_dir, c.right_dir, c.duration_ms)

from_bytes_any_direction(data) ==
    IF Len(data) # 6
    THEN ValueError
    ELSE LET u == unpack_BBBBH(data)
         IN  MotorCommand(u[1], u[2], u[3], u[4], u[5])

from_bytes(data) ==
    IF Len(data) # 6
    THEN ValueError
    ELSE LET u == unpack_BBBBH(data)
         IN  \* Direction(x) raises ValueError when x is no member
             IF u[3] \notin Direction \/ u[4] \notin Direction
             THEN ValueError
             ELSE MotorCommand(u[1], u[2], u[3], u[4], u[5])

COMMAND_SIZE == 6

(* shared/protocol.py: FrameProtocol *)

FRAME_HEADER_SIZE == 4
MAX_FRAME_SIZE == 10 * 1024 * 1024

pack_I_little_endian(n) ==
    <<n % 256, (n \div 256) % 256, (n \div 65536) % 256, (n \div 16777216) % 256>>

\* struct.pack('>I', n): four bytes, most significant first
pack_I(n) == <<(n \div 16777216) % 256, (n \div 65536) % 256, (n \div 256) % 256, n % 256>>

\* struct.unpack('>I', header)[0]
unpack_I(header) ==
    header[1] * 16777216 + header[2] * 65536 + header[3] * 256 + header[4]

\* the header encode_frame puts in front of a payload of frame_size_ bytes
encode_frame_header(frame_size_) == pack_I(frame_size_)

\* A byte string that may be megabytes long is a sequence of runs: n > 0
\* bytes of value b.
Run(n, b) == [n |-> n, b |-> b]

\* bytes(...) of a short byte sequence
AsRuns(seq) == [i \in 1..Len(seq) |-> Run(1, seq[i])]

\* len(data)
RECURSIVE ByteLen(_)
ByteLen(data) ==
    IF data = <<>> THEN 0 ELSE Head(data).n + ByteLen(Tail(data))

\* data[:k]
RECURSIVE TakeBytes(_, _)
TakeBytes(data, k) ==
    IF k = 0 \/ data = <<>>
    THEN <<>>
    ELSE IF Head(data).n <= k
         THEN <<Head(data)>> \o TakeBytes(Tail(data), k - Head(data).n)
         ELSE <<Run(k, Head(data).b)>>

\* data[k:]
RECURSIVE DropBytes(_, _)
DropBytes(data, k) ==
    IF k = 0 \/ data = <<>>
    THEN data
    ELSE IF Head(data).n <= k
         THEN DropBytes(Tail(data), k - Head(data).n)
         ELSE <<Run(Head(data).n - k, Head(data).b)>> \o Tail(data)

\* the bytes of a short byte string, one by one
RECURSIVE Expand(_)
Expand(data) ==
    IF data = <<>>
    THEN <<>>
    ELSE [i \in 1..Head(data).n |-> Head(data).b] \o Expand(Tail(data))

\* FrameProtocol.encode_frame(jpeg_data): header + jpeg_data
encode_frame(jpeg_data) ==
    LET frame_size_ == ByteLen(jpeg_data)
        header == encode_frame_header(frame_size_)
    IN  AsRuns(header) \o jpeg_data

\* what a call that returns an integer gives back when it does not raise
Return(value) == [value |-> value]

decode_frame_size(header) ==
    IF Len(header) # 4 THEN ValueError ELSE Return(unpack_I(header))

---------------------------------------------------------------------------
(* pi/config.py *)

watchdog_timeout == 1

forward_pins_left == <<"fl_forward", "rl_forward">>
backward_pins_left == <<"fl_backward", "rl_backward">>
pwm_pins_left == <<"fl_pwm", "rl_pwm">>
forward_pins_right == <<"fr_forward", "rr_forward">>
backward_pins_right == <<"fr_backward", "rr_backward">>
pwm_pins_right == <<"fr_pwm", "rr_pwm">>

\* the `pins` list of setup() and emergency_stop()
pins == <<"fl_forward", "fl_backward", "fr_forward", "fr_backward",
          "rl_forward", "rl_backward", "rr_forward", "rr_backward">>

\* the `pwm_pins` list of setup(); also the iteration order of pwm_objects
pwm_pins == <<"fl_pwm", "fr_pwm", "rl_pwm", "rr_pwm">>

Range(s) == {s[i] : i \in 1..Len(s)}

---------------------------------------------------------------------------
(* The RPi.GPIO capability as MotorController uses it.                     *)
(*   gpio.out   : channels set up as outputs                               *)
(*   gpio.level : level driven on each direction pin (LOW / HIGH)          *)
(*   gpio.duty  : duty cycle of each PWM channel, times 255                *)

LOW == 0
HIGH == 1

GpioInit ==
    [out |-> {},
     level |-> [p \in Range(pins) |-> LOW],
     duty |-> [p \in Range(pwm_pins) |-> 0]]

\* One physical write: GPIO.output(pin, value) or pwm.ChangeDutyCycle(value)
OutputWrite(pin, value) == [kind |-> "output", pin |-> pin, value |-> value]
DutyWrite(pin, value) == [kind |-> "duty", pin |-> pin, value |-> value]

\* GPIO.output raises RuntimeError on a channel that is not set up as an
\* output; ChangeDutyCycle raises ValueError outside 0.0 .. 100.0
WriteRaises(g, w) ==
    IF w.kind = "output"
    THEN w.pin \notin g.out
    ELSE w.value < 0 \/ w.value > 100 * 255

ApplyWrite(g, w) ==
    IF w.kind = "output"
    THEN [g EXCEPT !.level[w.pin] = w.value]
    ELSE [g EXCEPT !.duty[w.pin] = w.value]

\* Perform the writes ws in order, starting at write number i; stop at the
\* first one that raises.  `fault` is the number of the write on which the
\* hardware fails (0: no hardware fault).
RECURSIVE RunWrites(_, _, _, _)
RunWrites(g, ws, i, fault) ==
    IF i > Len(ws)
    THEN [gpio |-> g, raised |-> FALSE, done |-> Len(ws)]
    ELSE IF i = fault \/ WriteRaises(g, ws[i])
         THEN [gpio |-> g, raised |-> TRUE, done |-> i - 1]
         ELSE RunWrites(ApplyWrite(g, ws[i]), ws, i + 1, fault)

OutputWrites(ps, value) == [i \in 1..Len(ps) |-> OutputWrite(ps[i], value)]

\* `for pin in pwm_pins: if pin in self.pwm_objects: ...ChangeDutyCycle(d)`
DutyWrites(self, ps, value) ==
    LET present == SelectSeq(ps, LAMBDA p : p \in self.pwm_objects)
    IN  [i \in 1..Len(present) |-> DutyWrite(present[i], value)]

MotorsStopped(g) ==
    /\ \A p \in Range(pins) : g.level[p] = LOW
    /\ \A p \in Range(pwm_pins) : g.duty[p] = 0

---------------------------------------------------------------------------
(* pi/motor_controller.py: MotorController *)

MotorControllerInit(simulate, t) ==
    [simulate |-> simulate, pwm_objects |-> {},
     last_command_time |-> t, initialized |-> FALSE]

\* Every operation returns the object, the GPIO state, whether an exception
\* propagated to the caller (raised), whether emergency_stop() was invoked
\* (estop), whether the call was rejected, whether a write failed and how
\* many writes were completed.
Result(self, g, raised, estop, rejected, failed, done) ==
    [self |-> self, gpio |-> g, raised |-> raised, estop |-> estop,
     rejected |-> rejected, failed |-> failed, done |-> done]

setup(self, g) ==
    IF self.simulate
    THEN Result([self EXCEPT !.initialized = TRUE], g, FALSE, FALSE, FALSE, FALSE, 0)
    ELSE Result([self EXCEPT !.initialized = TRUE,
                             !.pwm_objects = Range(pwm_pins)],
                [out |-> Range(pins) \cup Range(pwm_pins),
                 level |-> [p \in Range(pins) |-> LOW],
                 duty |-> [p \in Range(pwm_pins) |-> 0]],
                FALSE, FALSE, FALSE, FALSE, 0)

cleanup(self, g) ==
    IF self.simulate
    THEN Result(self, g, FALSE, FALSE, FALSE, FALSE, 0)
    ELSE Result([self EXCEPT !.initialized = FALSE], GpioInit,
                FALSE, FALSE, FALSE, FALSE, 0)

emergency_stop_skip_pwm(self, g) ==
    IF self.simulate
    THEN Result(self, g, FALSE, TRUE, FALSE, FALSE, 0)
    ELSE LET r == RunWrites(g, OutputWrites(pins, LOW), 1, 0)
         IN  Result(self, r.gpio, FALSE, TRUE, FALSE, r.raised, r.done)

emergency_stop(self, g) ==
    IF self.simulate
    THEN Result(self, g, FALSE, TRUE, FALSE, FALSE, 0)
    ELSE LET ws == OutputWrites(pins, LOW)
                   \o DutyWrites(self, pwm_pins, 0)
             r == RunWrites(g, ws, 1, 0)
         IN  \* `except Exception` logs and returns
             Result(self, r.gpio, FALSE, TRUE, FALSE, r.raised, r.done)

\* _set_motor_group in which STOP leaves the commanded speed as it is
_set_motor_group_stop_keeps_speed(self, forward_pins, backward_pins, pwm_pins_, speed, direction) ==
    LET dirs == IF direction = FORWARD
                THEN OutputWrites(forward_pins, HIGH) \o OutputWrites(backward_pins, LOW)
                ELSE IF direction = BACKWARD
                THEN OutputWrites(forward_pins, LOW) \o OutputWrites(backward_pins, HIGH)
                ELSE OutputWrites(forward_pins \o backward_pins, LOW)
        duty_cycle == speed * 100
    IN  dirs \o DutyWrites(self, pwm_pins_, duty_cycle)

\* The physical writes _set_motor_group performs, in program order
_set_motor_group(self, forward_pins, backward_pins, pwm_pins_, speed, direction) ==
    LET dirs == IF direction = FORWARD
                THEN OutputWrites(forward_pins, HIGH) \o OutputWrites(backward_pins, LOW)
                ELSE IF direction = BACKWARD
                THEN OutputWrites(forward_pins, LOW) \o OutputWrites(backward_pins, HIGH)
                ELSE OutputWrites(forward_pins \o backward_pins, LOW)
        speed_ == IF direction \in {FORWARD, BACKWARD} THEN speed ELSE 0
        duty_cycle == speed_ * 100
    IN  dirs \o DutyWrites(self, pwm_pins_, duty_cycle)

\* the body of the try block: the left group, then the right group
CommandWrites(self, cmd) ==
    _set_motor_group(self, forward_pins_left, backward_pins_left, pwm_pins_left,
                     cmd.left_speed, cmd.left_dir)
    \o _set_motor_group(self, forward_pins_right, backward_pins_right, pwm_pins_right,
                        cmd.right_speed, cmd.right_dir)

execute_command_no_fallback(self, g, cmd, t, fault) ==
    IF ~self.initialized
    THEN Result(self, g, FALSE, FALSE, TRUE, FALSE, 0)
    ELSE IF self.simulate
    THEN Result([self EXCEPT !.last_command_time = t], g, FALSE, FALSE, FALSE, FALSE, 0)
    ELSE LET s1 == [self EXCEPT !.last_command_time = t]
             r == RunWrites(g, CommandWrites(s1, cmd), 1, fault)
         IN  Result(s1, r.gpio, FALSE, FALSE, FALSE, r.raised, r.done)

execute_command(self, g, cmd, t, fault) ==
    IF ~self.initialized
    THEN Result(self, g, FALSE, FALSE, TRUE, FALSE, 0)
    ELSE IF self.simulate
    THEN Result([self EXCEPT !.last_command_time = t], g, FALSE, FALSE, FALSE, FALSE, 0)
    ELSE LET s1 == [self EXCEPT !.last_command_time = t]
             r == RunWrites(g, CommandWrites(s1, cmd), 1, fault)
         IN  IF r.raised
             THEN \* except Exception: self.emergency_stop()
                  Result(s1, emergency_stop(s1, r.gpio).gpio,
                         FALSE, TRUE, FALSE, TRUE, r.done)
             ELSE Result(s1, r.gpio, FALSE, FALSE, FALSE, FALSE, r.done)

\* t1 is the clock read that computes time_since_command, t2 the clock read
\* that resets last_command_time
check_watchdog_no_reset(self, g, t1, t2) ==
    IF ~self.initialized
    THEN Result(self, g, FALSE, FALSE, TRUE, FALSE, 0)
    ELSE IF t1 - self.last_command_time > watchdog_timeout
         THEN emergency_stop(self, g)
         ELSE Result(self, g, FALSE, FALSE, FALSE, FALSE, 0)

check_watchdog(self, g, t1, t2) ==
    IF ~self.initialized
    THEN Result(self, g, FALSE, FALSE, TRUE, FALSE, 0)
    ELSE IF t1 - self.last_command_time > watchdog_timeout
         THEN LET r == emergency_stop(self, g)
              IN  [r EXCEPT !.self.last_command_time = t2]
         ELSE Result(self, g, FALSE, FALSE, FALSE, FALSE, 0)

---------------------------------------------------------------------------
(* Inputs *)

\* speeds a caller may pass; 300 is outside the u8 range
SpeedValues == {200, 300}

\* shared/protocol.py: the MotorCommand constructors
stop == MotorCommand(0, 0, STOP, STOP, 0)
forward(speed) == MotorCommand(speed, speed, FORWARD, FORWARD, 0)
backward(speed) == MotorCommand(speed, speed, BACKWARD, BACKWARD, 0)
rotate_left(speed) == MotorCommand(speed, speed, BACKWARD, FORWARD, 0)
rotate_right(speed) == MotorCommand(speed, speed, FORWARD, BACKWARD, 0)

\* number of physical writes of one execute_command, and of one wheel group
NumWrites == Len(pins) + Len(pwm_pins)
GroupWrites == Len(forward_pins_left) + Len(backward_pins_left) + Len(pwm_pins_left)

Commands ==
    {stop} \cup {forward(s) : s \in SpeedValues} \cup {backward(s) : s \in SpeedValues}
           \cup {rotate_left(s) : s \in SpeedValues}
           \cup {rotate_right(s) : s \in SpeedValues}

\* life is the last of setup() and cleanup() that has completed ("new" when
\* neither has): the controller's place in its lifecycle, whatever the
\* initialized flag says.
LastCall(op, r, cmd) ==
    [op |-> op, cmd |-> cmd, raised |-> r.raised, estop |-> r.estop,
     rejected |-> r.rejected, failed |-> r.failed,
     groups |-> r.done \div GroupWrites,
     changed |-> gpio' # gpio, seq |-> 1 - last.seq,
     life |-> IF op \in {"setup", "cleanup"} /\ ~r.raised THEN op ELSE last.life]

NoCall ==
    [op |-> "none", cmd |-> None, raised |-> FALSE, estop |-> FALSE,
     rejected |-> FALSE, failed |-> FALSE, groups |-> 0,
     changed |-> FALSE, seq |-> 0, life |-> "new"]

---------------------------------------------------------------------------
(* pi/network_client.py: NetworkClient.  Each operation takes the object  *)
(* and what the stream does, and returns the object and the result.       *)

NetworkClientInit == [connected |-> FALSE, socket |-> "none"]

\* ok: the TCP connection is established within connection_timeout
connect(self, ok) ==
    IF ok
    THEN [self |-> [connected |-> TRUE, socket |-> "open"], ret |-> TRUE]
    ELSE [self |-> [connected |-> FALSE, socket |-> "none"], ret |-> FALSE]

disconnect(self) == [self |-> [connected |-> FALSE, socket |-> "none"], ret |-> None]

send_frame_reconnects(self, ok) ==
    IF ~self.connected \/ self.socket = "none"
    THEN [self |-> self, ret |-> FALSE, sendall |-> FALSE]
    ELSE IF ok
         THEN [self |-> self, ret |-> TRUE, sendall |-> TRUE]
         ELSE [self |-> connect(self, TRUE).self, ret |-> FALSE, sendall |-> TRUE]

\* ok: sendall() writes the whole packet.  sendall: whether sendall() was
\* called, so that bytes may have gone to the stream.
send_frame(self, ok) ==
    IF ~self.connected \/ self.socket = "none"
    THEN [self |-> self, ret |-> FALSE, sendall |-> FALSE]
    ELSE IF ok
         THEN [self |-> self, ret |-> TRUE, sendall |-> TRUE]
         ELSE [self |-> [self EXCEPT !.connected = FALSE], ret |-> FALSE,
               sendall |-> TRUE]

\* What the stream delivers to one receive_command call:
\*   kind "data"    : COMMAND_SIZE bytes arrive (data)
\*   kind "timeout" : socket.timeout after n < COMMAND_SIZE bytes
\*   kind "closed"  : recv() returns b''
\*   kind "error"   : recv() raises another exception
Arrival(kind, n, data) == [kind |-> kind, n |-> n, data |-> data]

receive_command_ignore_malformed(self, arrival) ==
    IF ~self.connected \/ self.socket = "none"
    THEN [self |-> self, ret |-> None, dropped |-> 0]
    ELSE IF arrival.kind = "timeout"
    THEN [self |-> self, ret |-> None, dropped |-> arrival.n]
    ELSE IF arrival.kind \in {"closed", "error"}
    THEN [self |-> [self EXCEPT !.connected = FALSE], ret |-> None,
          dropped |-> arrival.n]
    ELSE IF from_bytes(arrival.data) = ValueError
         THEN [self |-> self, ret |-> None, dropped |-> 0]
         ELSE [self |-> self, ret |-> from_bytes(arrival.data), dropped |-> 0]

\* dropped: the bytes of an incomplete command that were read into the
\* local `data` and are gone when the call returns
receive_command(self, arrival) ==
    IF ~self.connected \/ self.socket = "none"
    THEN [self |-> self, ret |-> None, dropped |-> 0]
    ELSE IF arrival.kind = "timeout"
    THEN \* except socket.timeout: return None
         [self |-> self, ret |-> None, dropped |-> arrival.n]
    ELSE IF arrival.kind \in {"closed", "error"}
    THEN [self |-> [self EXCEPT !.connected = FALSE], ret |-> None,
          dropped |-> arrival.n]
    ELSE IF from_bytes(arrival.data) = ValueError
         THEN \* except Exception: self.connected = False; return None
              [self |-> [self EXCEPT !.connected = FALSE], ret |-> None,
               dropped |-> 0]
         ELSE [self |-> self, ret |-> from_bytes(arrival.data), dropped |-> 0]

\* record of a NetworkClient call made on its own
ClientCall(op, r) ==
    [op |-> op, ret |-> r.ret, sendall |-> r.sendall, dropped |-> r.dropped,
     seq |-> 1 - ncall.seq]

NoClientCall ==
    [op |-> "none", ret |-> None, sendall |-> FALSE, dropped |-> 0, seq |-> 0]

\* the step is a call of the NetworkClient method op
ClientCalled(op) == ncall'.seq # ncall.seq /\ ncall'.op = op

---------------------------------------------------------------------------
(* server/network_server.py: NetworkServer.  A CarConnection is named by  *)
(* the order in which it was accepted: 1, 2, ...  alive[c] is the running *)
(* flag of connection c (what c.is_alive() returns), connections is the   *)
(* registry self.connections in list order, call is the outcome of the    *)
(* last NetworkServer call; its field held lists, in order, what the call *)
(* did while it held self.lock.                                           *)

NoServerCall == [op |-> "none", ret |-> None, held |-> <<>>, seq |-> 0]

\* something done inside `with self.lock:`: a registry operation ("prune",
\* "append", "read", "clear"), or "sendall" / "join" / "close" on the
\* connection conn; ok tells whether it succeeded
LockedOp(op, conn, ok) == [op |-> op, conn |-> conn, ok |-> ok]

\* car_conn is the connection _accept_loop has accepted and started and not
\* yet registered (0: none); stop is the position of stop(): "join" from
\* the end of its `with self.lock:` until accept_thread.join() returns
NetworkServerInit ==
    [running |-> FALSE, connections |-> <<>>, alive |-> <<>>,
     car_conn |-> 0, stop |-> "idle",
     call |-> NoServerCall]

\* [c for c in self.connections if c.is_alive()], where seen[c] is what
\* c.is_alive() returned when the comprehension read it
live_connections(connections, seen) ==
    LET is_alive(c) == seen[c]
    IN  SelectSeq(connections, is_alive)

get_active_connection_no_prune(self, seen) ==
    [self |-> self,
     ret |-> IF self.connections # <<>>
             THEN Return(self.connections[1]) ELSE None]

get_active_connection(self, seen) ==
    LET kept == live_connections(self.connections, seen)
    IN  [self |-> [self EXCEPT !.connections = kept],
         ret |-> IF kept # <<>> THEN Return(kept[1]) ELSE None]

\* broadcast_command(command): ok[c] is what c.send_command(command)
\* returns, that is whether sendall on the socket of c succeeded; alive is
\* not looked at
broadcast_command(self, alive, ok) ==
    LET conns == self.connections
    IN  [self |-> self,
         ret |-> Return(Cardinality({i \in 1..Len(conns) : ok[conns[i]]})),
         held |-> [i \in 1..Len(conns) |-> LockedOp("sendall", conns[i], ok[conns[i]])]]

\* CarConnection.stop() of each registered connection in turn (the running
\* flag is cleared, the receive thread joined, the socket closed), then
\* self.connections.clear(): what stop() does inside `with self.lock:`
stop_connections(self) ==
    LET conns == self.connections
        step(i) == IF i % 2 = 1 THEN LockedOp("join", conns[(i + 1) \div 2], TRUE)
                                ELSE LockedOp("close", conns[i \div 2], TRUE)
    IN  [self |-> [self EXCEPT
                      !.alive = [c \in 1..Len(self.alive) |->
                                    self.alive[c] /\ c \notin Range(conns)],
                      !.connections = <<>>],
         held |-> [i \in 1..(2 * Len(conns)) |-> step(i)]
                  \o <<LockedOp("clear", 0, TRUE)>>]

---------------------------------------------------------------------------
(* server/server_control.py: ServerController.  pc is the position of the *)
(* main thread ("init" before start(), "loop" in run_ai_control, "done"   *)
(* after it); limited tells whether the interpreter limits the length of  *)
(* integer strings; step is what the last round of the loop did.          *)

NoStep ==
    [seq |-> 0, conn |-> FALSE, frame |-> FALSE, response |-> None,
     parsed |-> None, raised |-> None, send_command |-> None, sent |-> FALSE]

ServerControllerInit ==
    [running |-> FALSE, pc |-> "init", limited |-> FALSE, step |-> NoStep]

---------------------------------------------------------------------------
(* pi/ultrasonic_sensors.py: UltrasonicSensors *)

NoReading == [op |-> "none", seq |-> 0]

UltrasonicSensorsInit(simulate) ==
    [simulate |-> simulate, initialized |-> FALSE, call |-> NoReading]

\* server/network_server.py: the socket of a CarConnection just
\* constructed; stop is the position of a thread that called stop():
\* "idle" (not called), "join" (running cleared, in receive_thread.join),
\* "close" (about to close the socket), "done"; joined tells whether the
\* join returned because the receive thread had ended
SocketInit == [closed |-> FALSE, stop |-> "idle", joined |-> FALSE]

\* the step is a call of op (last.seq alternates from call to call)
Called(op) == last'.seq # last.seq /\ last'.op = op

---------------------------------------------------------------------------
(* Initial states *)

\* a MotorController just constructed, in either mode; no CarHardware is
\* running, no CarConnection exists and no command is being encoded
MotorInit ==
    /\ now = 0
    /\ \E simulate \in BOOLEAN : motors = MotorControllerInit(simulate, 0)
    /\ gpio = GpioInit
    /\ last = NoCall
    /\ writing = None
    /\ wd_stop = -1
    /\ wd_gap = -1
    /\ pc = "idle"
    /\ running = FALSE
    /\ network = NetworkClientInit
    /\ command = None
    /\ rx = None
    /\ ncall = NoClientCall
    /\ server = NetworkServerInit
    /\ controller = ServerControllerInit
    /\ sensors = UltrasonicSensorsInit(FALSE)
    /\ conn_running = FALSE
    /\ sock = SocketInit
    /\ frame_queue = <<>>
    /\ rthread = "new"
    /\ frame_size = 0
    /\ frame_data = None
    /\ arrived = 0
    /\ events = <<>>
    /\ codec = [step |-> "idle"]

---------------------------------------------------------------------------
(* MotorController driven call by call *)

Tick ==
    /\ now < MaxTime
    /\ now' = now + 1
    /\ UNCHANGED <<motorVars, roverVars>>
    /\ UNCHANGED nonRoverVars

Setup ==
    /\ ~motors.initialized
    /\ \E r \in {setup(motors, gpio)} :
           /\ motors' = r.self
           /\ gpio' = r.gpio
           /\ now' = now
           /\ last' = LastCall("setup", r, None)
    /\ UNCHANGED <<watchdogVars, roverVars>>
    /\ UNCHANGED nonRoverVars

Cleanup ==
    /\ \E r \in {cleanup(motors, gpio)} :
           /\ motors' = r.self
           /\ gpio' = r.gpio
           /\ now' = now
           /\ last' = LastCall("cleanup", r, None)
    /\ UNCHANGED <<watchdogVars, roverVars>>
    /\ UNCHANGED nonRoverVars

ExecuteCommand ==
    /\ \E cmd \in Commands, fault \in 0..NumWrites :
         \* a hardware fault needs a write: none happens in simulation mode
         \* or on a rejected call
         /\ fault # 0 => (motors.initialized /\ ~motors.simulate)
         /\ \E r \in {execute_command(motors, gpio, cmd, now, fault)} :
              /\ motors' = r.self
              /\ gpio' = r.gpio
              /\ now' = now
              /\ last' = LastCall("execute_command", r, cmd)
    /\ UNCHANGED <<watchdogVars, roverVars>>
    /\ UNCHANGED nonRoverVars

EmergencyStop ==
    /\ \E r \in {emergency_stop(motors, gpio)} :
           /\ motors' = r.self
           /\ gpio' = r.gpio
           /\ now' = now
           /\ last' = LastCall("emergency_stop", r, None)
    /\ UNCHANGED <<watchdogVars, roverVars>>
    /\ UNCHANGED nonRoverVars

CheckWatchdog ==
    /\ \E d \in 0..MaxDelay :
         /\ now + d <= MaxTime
         /\ \E r \in {check_watchdog(motors, gpio, now, now + d)} :
                /\ motors' = r.self
                /\ gpio' = r.gpio
                /\ now' = IF r.estop THEN now + d ELSE now
                /\ last' = LastCall("check_watchdog", r, None)
                /\ wd_stop' = IF r.estop THEN now + d ELSE wd_stop
                /\ wd_gap' = IF r.estop /\ wd_stop # -1 THEN now - wd_stop ELSE wd_gap
    /\ UNCHANGED roverVars
    /\ UNCHANGED nonRoverVars

MotorNext ==
    \/ Tick
    \/ Setup
    \/ Cleanup
    \/ ExecuteCommand
    \/ EmergencyStop
    \/ CheckWatchdog

SpecMotor == MotorInit /\ [][MotorNext]_vars

---------------------------------------------------------------------------
(* A hardware MotorController driven through every combination of         *)
(* directions, with the speeds at and next to the ends and the middle of  *)
(* 0..255                                                                 *)

DriveSpeeds == {0, 1, 127, 128, 254, 255}

DriveCommands ==
    {MotorCommand(ls, rs, ld, rd, 0) :
        ls \in DriveSpeeds, rs \in DriveSpeeds, ld \in Direction, rd \in Direction}

DriveInit ==
    /\ now = 0
    /\ motors = MotorControllerInit(FALSE, 0)
    /\ gpio = GpioInit
    /\ last = NoCall
    /\ writing = None
    /\ wd_stop = -1
    /\ wd_gap = -1
    /\ pc = "idle"
    /\ running = FALSE
    /\ network = NetworkClientInit
    /\ command = None
    /\ rx = None
    /\ ncall = NoClientCall
    /\ server = NetworkServerInit
    /\ controller = ServerControllerInit
    /\ sensors = UltrasonicSensorsInit(FALSE)
    /\ conn_running = FALSE
    /\ sock = SocketInit
    /\ frame_queue = <<>>
    /\ rthread = "new"
    /\ frame_size = 0
    /\ frame_data = None
    /\ arrived = 0
    /\ events = <<>>
    /\ codec = [step |-> "idle"]

\* execute_command(cmd) with no hardware fault
Drive ==
    /\ \E cmd \in DriveCommands :
        \E r \in {execute_command(motors, gpio, cmd, now, 0)} :
              /\ motors' = r.self
              /\ gpio' = r.gpio
              /\ now' = now
              /\ last' = LastCall("execute_command", r, cmd)
    /\ UNCHANGED <<watchdogVars, roverVars>>
    /\ UNCHANGED nonRoverVars

DriveNext ==
    \/ Setup
    \/ Drive

SpecDrive == DriveInit /\ [][DriveNext]_vars

---------------------------------------------------------------------------
(* execute_command on a hardware MotorController taken one physical write *)
(* at a time: writing holds the command being executed and the number of  *)
(* its writes that are done                                               *)

TurnCommands ==
    {MotorCommand(200, 200, ld, rd, 0) : ld \in Direction, rd \in Direction}

\* execute_command(cmd) up to the try block (lines 120-128)
ExecuteBegin ==
    /\ writing = None
    /\ UNCHANGED <<now, gpio, watchdogVars, roverVars>>
    /\ \E cmd \in TurnCommands :
         IF ~motors.initialized
         THEN /\ UNCHANGED <<motors, writing>>
              /\ last' = LastCall("execute_command",
                                  execute_command(motors, gpio, cmd, now, 0), cmd)
         ELSE /\ motors' = [motors EXCEPT !.last_command_time = now]
              /\ writing' = [cmd |-> cmd, done |-> 0]
              /\ last' = last
    /\ UNCHANGED <<connVars, codec, ncall, server, controller, sensors>>

\* the next GPIO.output or ChangeDutyCycle of the two _set_motor_group
\* calls; after the last one execute_command returns
ExecuteWrite ==
    /\ writing # None
    /\ LET ws == CommandWrites(motors, writing.cmd)
           k == writing.done + 1
       IN  /\ gpio' = ApplyWrite(gpio, ws[k])
           /\ IF k < Len(ws)
              THEN /\ writing' = [writing EXCEPT !.done = k]
                   /\ last' = last
              ELSE /\ writing' = None
                   /\ last' = LastCall("execute_command",
                                       Result(motors, gpio', FALSE, FALSE, FALSE, FALSE, k),
                                       writing.cmd)
    /\ UNCHANGED <<now, motors, watchdogVars, roverVars>>
    /\ UNCHANGED <<connVars, codec, ncall, server, controller, sensors>>

WriteNext ==
    \/ Setup
    \/ ExecuteBegin
    \/ ExecuteWrite

SpecWrites == DriveInit /\ [][WriteNext]_vars

---------------------------------------------------------------------------
(* pi/car_hardware.py: CarHardware, the rover control loop.               *)
(* pc is the position of the main thread:                                  *)
(*   "init"      before CarHardware.setup()                                *)
(*   "ready"     set up, run() not yet called                              *)
(*   "connect"   in reconnect_loop(), called before the loop (line 113)    *)
(*   "loop"      at the top of `while self.running`                        *)
(*   "reconnect" in reconnect_loop(), called from the loop (line 124)      *)
(*   "capture", "send", "recv", "watchdog"  the steps of the loop body     *)
(*   "done"      run() has returned                                        *)
(*   "exited"    main() has cleaned up and the process exits               *)

\* commands the controller puts on the wire, and a 6-byte message whose
\* right direction byte is no Direction
WireCommands == {stop, forward(200), rotate_left(200)}
MalformedWire == <<200, 200, FORWARD, 3, 0, 0>>
WireData == {to_bytes(c) : c \in WireCommands} \cup {MalformedWire}

Arrivals ==
    {Arrival("data", COMMAND_SIZE, d) : d \in WireData}
    \cup {Arrival("timeout", n, <<>>) : n \in 0..(COMMAND_SIZE - 1)}
    \cup {Arrival("closed", 0, <<>>), Arrival("error", 0, <<>>)}

InRun == pc \in {"connect", "loop", "reconnect", "capture", "send", "recv", "watchdog"}

RoverInit ==
    /\ now = 0
    /\ \E simulate \in BOOLEAN : motors = MotorControllerInit(simulate, 0)
    /\ gpio = GpioInit
    /\ last = NoCall
    /\ writing = None
    /\ wd_stop = -1
    /\ wd_gap = -1
    /\ pc = "init"
    /\ running = FALSE
    /\ network = NetworkClientInit
    /\ command = None
    /\ rx = None
    /\ ncall = NoClientCall
    /\ server = NetworkServerInit
    /\ controller = ServerControllerInit
    /\ sensors = UltrasonicSensorsInit(FALSE)
    /\ conn_running = FALSE
    /\ sock = SocketInit
    /\ frame_queue = <<>>
    /\ rthread = "new"
    /\ frame_size = 0
    /\ frame_data = None
    /\ arrived = 0
    /\ events = <<>>
    /\ codec = [step |-> "idle"]

\* CarHardware.cleanup(): motors.emergency_stop(), motors.cleanup() (the
\* camera has no state here; the network is disconnected by the caller)
CarHardware_cleanup(m, g) ==
    LET e == emergency_stop(m, g)
    IN  cleanup(e.self, e.gpio)

\* CarHardware.setup(): camera.setup(), motors.setup()
CarSetup ==
    /\ pc = "init"
    /\ \E r \in {setup(motors, gpio)} :
         /\ motors' = r.self
         /\ gpio' = r.gpio
         /\ now' = now
         /\ last' = LastCall("setup", r, None)
    /\ pc' = "ready"
    /\ UNCHANGED <<watchdogVars, running, network, command, rx>>
    /\ UNCHANGED nonRoverVars

\* run(), up to the first reconnect_loop()
RunStart ==
    /\ pc = "ready"
    /\ running' = TRUE
    /\ pc' = "connect"
    /\ UNCHANGED <<now, motorVars, network, command, rx>>
    /\ UNCHANGED nonRoverVars

\* the places reconnect_loop() is called from, and where it returns to
InReconnectLoop == {"connect", "reconnect", "reconnect_loop"}
ReturnFrom(p) ==
    IF p = "connect" THEN "loop" ELSE IF p = "reconnect" THEN "capture" ELSE "client"

ReconnectLoop_returns_on_failure ==
    /\ pc \in InReconnectLoop
    /\ IF network.connected
       THEN /\ network' = network
            /\ pc' = ReturnFrom(pc)
       ELSE \E ok \in BOOLEAN :
            \E r \in {connect(network, ok)} :
              /\ network' = r.self
              /\ pc' = ReturnFrom(pc)
    /\ UNCHANGED <<now, motorVars, running, command, rx>>
    /\ UNCHANGED nonRoverVars

\* one round of reconnect_loop(): `while not self.connected: if
\* self.connect(): return; time.sleep(retry_delay)`
ReconnectLoop ==
    /\ pc \in InReconnectLoop
    /\ IF network.connected
       THEN /\ network' = network
            /\ pc' = ReturnFrom(pc)
       ELSE \E ok \in BOOLEAN :
            \E r \in {connect(network, ok)} :
              /\ network' = r.self
              /\ pc' = IF ~r.ret THEN pc ELSE ReturnFrom(pc)
    /\ UNCHANGED <<now, motorVars, running, command, rx>>
    /\ UNCHANGED nonRoverVars

LoopTop_reconnect_without_stop ==
    /\ pc = "loop"
    /\ IF ~running
       THEN /\ \E r \in {emergency_stop(motors, gpio)} :
                 /\ motors' = r.self
                 /\ gpio' = r.gpio
                 /\ last' = LastCall("emergency_stop", r, None)
            /\ pc' = "done"
       ELSE /\ UNCHANGED <<motors, gpio, last>>
            /\ pc' = IF ~network.connected THEN "reconnect" ELSE "capture"
    /\ UNCHANGED <<now, watchdogVars, running, network, command, rx>>
    /\ UNCHANGED nonRoverVars

\* `while self.running:` and the connection check (lines 119-124); when
\* running is false the loop ends and the finally block runs
LoopTop ==
    /\ pc = "loop"
    /\ IF ~running
       THEN /\ \E r \in {emergency_stop(motors, gpio)} :
                 /\ motors' = r.self
                 /\ gpio' = r.gpio
                 /\ last' = LastCall("emergency_stop", r, None)
            /\ pc' = "done"
       ELSE IF ~network.connected
       THEN /\ \E r \in {emergency_stop(motors, gpio)} :
                 /\ motors' = r.self
                 /\ gpio' = r.gpio
                 /\ last' = LastCall("emergency_stop", r, None)
            /\ pc' = "reconnect"
       ELSE /\ UNCHANGED <<motors, gpio, last>>
            /\ pc' = "capture"
    /\ UNCHANGED <<now, watchdogVars, running, network, command, rx>>
    /\ UNCHANGED nonRoverVars

\* capture_frame() (lines 127-131); it returns None when the camera fails
CaptureFrame ==
    /\ pc = "capture"
    /\ \E frame_ok \in BOOLEAN : pc' = IF frame_ok THEN "send" ELSE "loop"
    /\ UNCHANGED <<now, motorVars, running, network, command, rx>>
    /\ UNCHANGED nonRoverVars

\* send_frame(frame_data) (lines 134-138)
SendFrame ==
    /\ pc = "send"
    /\ \E ok \in BOOLEAN :
       \E r \in {send_frame(network, ok)} :
         /\ network' = r.self
         /\ pc' = IF r.ret THEN "recv" ELSE "loop"
    /\ UNCHANGED <<now, motorVars, running, command, rx>>
    /\ UNCHANGED nonRoverVars

\* receive_command(timeout=0.05) and execute_command (lines 142-144)
ReceiveCommand ==
    /\ pc = "recv"
    /\ \E arrival \in Arrivals, fault \in 0..NumWrites :
       \E r \in {receive_command(network, arrival)} :
         /\ fault # 0 => (r.ret # None /\ motors.initialized /\ ~motors.simulate)
         /\ network' = r.self
         /\ rx' = arrival
         /\ command' = r.ret
         /\ IF r.ret # None
            THEN \E e \in {execute_command(motors, gpio, r.ret, now, fault)} :
                   /\ motors' = e.self
                   /\ gpio' = e.gpio
                   /\ last' = LastCall("execute_command", e, r.ret)
            ELSE UNCHANGED <<motors, gpio, last>>
    /\ pc' = "watchdog"
    /\ UNCHANGED <<now, watchdogVars, running>>
    /\ UNCHANGED nonRoverVars

\* check_watchdog() and the rest of the loop body (lines 147-156)
Watchdog ==
    /\ pc = "watchdog"
    /\ \E d \in 0..MaxDelay :
         /\ now + d <= MaxTime
         /\ \E r \in {check_watchdog(motors, gpio, now, now + d)} :
                /\ motors' = r.self
                /\ gpio' = r.gpio
                /\ now' = IF r.estop THEN now + d ELSE now
                /\ last' = LastCall("check_watchdog", r, None)
                /\ wd_stop' = IF r.estop THEN now + d ELSE wd_stop
                /\ wd_gap' = IF r.estop /\ wd_stop # -1 THEN now - wd_stop ELSE wd_gap
    /\ pc' = "loop"
    \* the iteration ends: its locals are gone
    /\ command' = None
    /\ rx' = None
    /\ UNCHANGED <<running, network>>
    /\ UNCHANGED nonRoverVars

\* SIGINT / SIGTERM while run() executes: signal_handler sets car.running =
\* False, calls car.cleanup() and sys.exit(0); SystemExit unwinds run()
\* through its finally block and main() through its own
signal_handler ==
    /\ InRun
    /\ running' = FALSE
    /\ \E c1 \in {CarHardware_cleanup(motors, gpio)} :
       \E e \in {emergency_stop(c1.self, c1.gpio)} :
       \E c2 \in {CarHardware_cleanup(e.self, e.gpio)} :
         /\ motors' = c2.self
         /\ gpio' = c2.gpio
         /\ last' = LastCall("cleanup", c2, None)
    /\ network' = disconnect(network).self
    /\ pc' = "exited"
    /\ UNCHANGED <<now, watchdogVars, command, rx>>
    /\ UNCHANGED nonRoverVars

\* an exception inside the loop: `finally: self.running = False;
\* self.motors.emergency_stop()` (lines 158-164)
Interrupt ==
    /\ InRun
    /\ running' = FALSE
    /\ \E r \in {emergency_stop(motors, gpio)} :
         /\ motors' = r.self
         /\ gpio' = r.gpio
         /\ last' = LastCall("emergency_stop", r, None)
    /\ pc' = "done"
    /\ UNCHANGED <<now, watchdogVars, network, command, rx>>
    /\ UNCHANGED nonRoverVars

\* main(): `finally: car.cleanup()` once run() has returned
MainCleanup ==
    /\ pc = "done"
    /\ \E r \in {CarHardware_cleanup(motors, gpio)} :
         /\ motors' = r.self
         /\ gpio' = r.gpio
         /\ last' = LastCall("cleanup", r, None)
    /\ network' = disconnect(network).self
    /\ pc' = "exited"
    /\ UNCHANGED <<now, watchdogVars, running, command, rx>>
    /\ UNCHANGED nonRoverVars

RoverStep ==
    \/ CarSetup
    \/ RunStart
    \/ ReconnectLoop
    \/ LoopTop
    \/ CaptureFrame
    \/ SendFrame
    \/ ReceiveCommand
    \/ Watchdog
    \/ MainCleanup

RoverNext ==
    \/ Tick
    \/ RoverStep
    \/ signal_handler
    \/ Interrupt

SpecRover == RoverInit /\ [][RoverNext]_vars

\* The main thread is never suspended for ever: it keeps taking steps
SpecRoverFair == SpecRover /\ WF_vars(RoverStep)

---------------------------------------------------------------------------
(* pi/network_client.py: NetworkClient driven call by call.  pc is         *)
(* "client" between calls and "reconnect_loop" while reconnect_loop() runs *)

ClientInit ==
    /\ pc = "client"
    /\ running = FALSE
    /\ network = NetworkClientInit
    /\ command = None
    /\ rx = None
    /\ ncall = NoClientCall
    /\ server = NetworkServerInit
    /\ controller = ServerControllerInit
    /\ sensors = UltrasonicSensorsInit(FALSE)
    /\ now = 0
    /\ motors = MotorControllerInit(FALSE, 0)
    /\ gpio = GpioInit
    /\ last = NoCall
    /\ writing = None
    /\ wd_stop = -1
    /\ wd_gap = -1
    /\ conn_running = FALSE
    /\ sock = SocketInit
    /\ frame_queue = <<>>
    /\ rthread = "new"
    /\ frame_size = 0
    /\ frame_data = None
    /\ arrived = 0
    /\ events = <<>>
    /\ codec = [step |-> "idle"]

ClientConnect ==
    /\ pc = "client"
    /\ \E ok \in BOOLEAN :
       \E r \in {connect(network, ok)} :
         /\ network' = r.self
         /\ ncall' = ClientCall("connect", [ret |-> r.ret, sendall |-> FALSE, dropped |-> 0])
    /\ UNCHANGED <<pc, command, rx>>
    /\ UNCHANGED nonClientVars

ClientDisconnect ==
    /\ pc = "client"
    /\ \E r \in {disconnect(network)} :
         /\ network' = r.self
         /\ ncall' = ClientCall("disconnect", [ret |-> r.ret, sendall |-> FALSE, dropped |-> 0])
    /\ UNCHANGED <<pc, command, rx>>
    /\ UNCHANGED nonClientVars

ClientSendFrame ==
    /\ pc = "client"
    /\ \E ok \in BOOLEAN :
       \E r \in {send_frame(network, ok)} :
         /\ network' = r.self
         /\ ncall' = ClientCall("send_frame", [ret |-> r.ret, sendall |-> r.sendall, dropped |-> 0])
    /\ UNCHANGED <<pc, command, rx>>
    /\ UNCHANGED nonClientVars

ClientReceiveCommand ==
    /\ pc = "client"
    /\ \E arrival \in Arrivals :
       \E r \in {receive_command(network, arrival)} :
         /\ network' = r.self
         /\ rx' = arrival
         /\ command' = r.ret
         /\ ncall' = ClientCall("receive_command",
                                [ret |-> r.ret, sendall |-> FALSE, dropped |-> r.dropped])
    /\ UNCHANGED pc
    /\ UNCHANGED nonClientVars

\* reconnect_loop() is called
ClientReconnectCall ==
    /\ pc = "client"
    /\ pc' = "reconnect_loop"
    /\ ncall' = ClientCall("reconnect_loop", [ret |-> None, sendall |-> FALSE, dropped |-> 0])
    /\ UNCHANGED <<network, command, rx>>
    /\ UNCHANGED nonClientVars

ClientNext ==
    \/ ClientConnect
    \/ ClientDisconnect
    \/ ClientSendFrame
    \/ ClientReceiveCommand
    \/ ClientReconnectCall
    \/ ReconnectLoop

SpecClient == ClientInit /\ [][ClientNext]_vars

---------------------------------------------------------------------------
(* NetworkServer driven call by call.  The receive thread of a connection *)
(* ends on its own (peer closed, read error, oversized frame) at any time, *)
(* also while another thread holds the registry lock: `early` are the     *)
(* connections that end before the pruning reads their flag, `late` those *)
(* that end after it and before the call returns.                         *)

ServerCall(op, ret, held) ==
    [op |-> op, ret |-> ret, held |-> held, seq |-> 1 - server.call.seq]

ServerCalled(op) == server'.call.seq # server.call.seq /\ server'.call.op = op

Accepted == 1..Len(server.alive)
Live == {c \in Accepted : server.alive[c]}

\* the flags after the connections of `dead` have ended
Ended(alive, dead) == [c \in 1..Len(alive) |-> alive[c] /\ c \notin dead]

ServerInit ==
    /\ server = NetworkServerInit
    /\ controller = ServerControllerInit
    /\ sensors = UltrasonicSensorsInit(FALSE)
    /\ ncall = NoClientCall
    /\ pc = "idle"
    /\ running = FALSE
    /\ network = NetworkClientInit
    /\ command = None
    /\ rx = None
    /\ now = 0
    /\ motors = MotorControllerInit(FALSE, 0)
    /\ gpio = GpioInit
    /\ last = NoCall
    /\ writing = None
    /\ wd_stop = -1
    /\ wd_gap = -1
    /\ conn_running = FALSE
    /\ sock = SocketInit
    /\ frame_queue = <<>>
    /\ rthread = "new"
    /\ frame_size = 0
    /\ frame_data = None
    /\ arrived = 0
    /\ events = <<>>
    /\ codec = [step |-> "idle"]

ServerStart ==
    /\ ~server.running
    /\ server.stop # "join"
    /\ server' = [server EXCEPT !.running = TRUE,
                                !.stop = "idle",
                                !.call = ServerCall("start", None, <<>>)]
    /\ UNCHANGED nonServerVars

\* _accept_loop: `while self.running:` is passed, accept() returns a
\* connection, its CarConnection is created and started
AcceptConnection ==
    /\ server.running
    /\ server.car_conn = 0
    /\ Len(server.alive) < MaxConns
    /\ server' = [server EXCEPT !.alive = Append(server.alive, TRUE),
                                !.car_conn = Len(server.alive) + 1]
    /\ UNCHANGED nonServerVars

\* _accept_loop: the `with self.lock:` that registers the connection
Accept ==
    /\ server.car_conn # 0
    /\ \E early \in SUBSET Live :
         \E late \in SUBSET (Live \ early) :
           LET car_conn == server.car_conn
               seen == Ended(server.alive, early)
               kept == live_connections(server.connections, seen)
           IN  server' = [server EXCEPT
                   !.alive = Ended(server.alive, early \cup late),
                   !.connections = Append(kept, car_conn),
                   !.car_conn = 0,
                   !.call = ServerCall("_accept_loop", None,
                                       <<LockedOp("prune", 0, TRUE),
                                         LockedOp("append", car_conn, TRUE)>>)]
    /\ UNCHANGED nonServerVars

\* _receive_loop of connection c ends: finally: self.running = False
ReceiveLoopExit ==
    /\ \E c \in Live :
           server' = [server EXCEPT !.alive = Ended(server.alive, {c})]
    /\ UNCHANGED nonServerVars

GetActiveConnection ==
    /\ \E early \in SUBSET Live :
         \E late \in SUBSET (Live \ early) :
           \E r \in {get_active_connection(server, Ended(server.alive, early))} :
               server' = [r.self EXCEPT
                   !.alive = Ended(server.alive, early \cup late),
                   !.call = ServerCall("get_active_connection", r.ret,
                                       <<LockedOp("prune", 0, TRUE),
                                         LockedOp("read", 0, TRUE)>>)]
    /\ UNCHANGED nonServerVars

\* stop() up to the end of its `with self.lock:`: the flag is cleared,
\* every registered connection is stopped, the registry is cleared
ServerStop ==
    /\ server.running
    /\ \E r \in {stop_connections(server)} :
         server' = [r.self EXCEPT
             !.running = FALSE,
             !.stop = "join",
             !.call = ServerCall("stop", None, r.held)]
    /\ UNCHANGED nonServerVars

\* stop() returns: the server socket is closed and accept_thread.join()
\* has returned, the accept thread having left its loop
ServerJoin ==
    /\ server.stop = "join"
    /\ server.car_conn = 0
    /\ server' = [server EXCEPT !.stop = "returned"]
    /\ UNCHANGED nonServerVars

\* broadcast_command(command).  A connection that ends while the loop runs
\* is written to as one that ended before the call or after it, so the
\* flags are those of the state the call starts in.
BroadcastCommand ==
    /\ \E ok \in [Range(server.connections) -> BOOLEAN] :
        \E r \in {broadcast_command(server, server.alive, ok)} :
           server' = [r.self EXCEPT
               !.call = ServerCall("broadcast_command", r.ret, r.held)]
    /\ UNCHANGED nonServerVars

ServerNext ==
    \/ ServerStart
    \/ AcceptConnection
    \/ Accept
    \/ ReceiveLoopExit
    \/ GetActiveConnection
    \/ ServerStop
    \/ ServerJoin
    \/ BroadcastCommand

SpecServer == ServerInit /\ [][ServerNext]_vars

---------------------------------------------------------------------------
(* server/network_server.py: CarConnection.                               *)
(* The rover sends frames one after the other; frame number k carries the *)
(* payload k.  rthread is the position of the receive thread:             *)
(*   "new"      start() not yet called                                    *)
(*   "loop"     at `while self.running`                                   *)
(*   "header"   in _recv_exact(FRAME_HEADER_SIZE), reading a frame header *)
(*   "payload"  header decoded and accepted, about to read the payload    *)
(*   "put"      about to try frame_queue.put_nowait(frame_data)           *)
(*   "discard"  the put failed: about to frame_queue.get_nowait()         *)
(*   "put2"     about to call frame_queue.put_nowait(frame_data) again    *)
(*   "exited"   the loop has ended (finally: self.running = False)        *)

\* Queue(maxsize=2)
maxsize == 2

\* declared payload lengths the rover (or a corrupt stream) may send
FrameSizes == {0, 1, MAX_FRAME_SIZE, MAX_FRAME_SIZE + 1}

\* queue.Queue.put_nowait: raises Full when maxsize items are queued
put_nowait(q, item) ==
    IF Len(q) >= maxsize
    THEN [queue |-> q, full |-> TRUE]
    ELSE [queue |-> Append(q, item), full |-> FALSE]

get_nowait_newest(q) ==
    IF q = <<>>
    THEN [queue |-> q, item |-> None]
    ELSE [queue |-> SubSeq(q, 1, Len(q) - 1), item |-> q[Len(q)]]

\* queue.Queue.get / get_nowait: the oldest item; Empty when there is none
get_nowait(q) ==
    IF q = <<>>
    THEN [queue |-> q, item |-> None]
    ELSE [queue |-> Tail(q), item |-> Head(q)]

\* the payload of the k-th frame received
Frame(k) == [id |-> k]

\* b'': what _recv_exact(0) returns without reading the stream
EmptyBytes == [id |-> 0]

\* _recv_exact(n) on a stream that stays open: the next n bytes of it
_recv_exact(stream, n) == SubSeq(stream, 1, n)

Event(op, item) == [op |-> op, item |-> item]

ConnInit ==
    /\ conn_running = FALSE
    /\ sock = SocketInit
    /\ frame_queue = <<>>
    /\ rthread = "new"
    /\ frame_size = 0
    /\ frame_data = None
    /\ arrived = 0
    /\ events = <<>>
    /\ now = 0
    /\ motors = MotorControllerInit(FALSE, 0)
    /\ gpio = GpioInit
    /\ last = NoCall
    /\ writing = None
    /\ wd_stop = -1
    /\ wd_gap = -1
    /\ pc = "idle"
    /\ running = FALSE
    /\ network = NetworkClientInit
    /\ command = None
    /\ rx = None
    /\ ncall = NoClientCall
    /\ server = NetworkServerInit
    /\ controller = ServerControllerInit
    /\ sensors = UltrasonicSensorsInit(FALSE)
    /\ codec = [step |-> "idle"]

\* start()
ConnStart ==
    /\ rthread = "new"
    /\ conn_running' = TRUE
    /\ rthread' = "loop"
    /\ UNCHANGED <<sock, frame_queue, frame_size, frame_data, arrived, events>>
    /\ UNCHANGED nonConnVars

\* `while self.running:` is false: the loop ends
RecvLoopEnd ==
    /\ rthread = "loop"
    /\ ~conn_running
    /\ rthread' = "exited"
    /\ UNCHANGED <<sock, conn_running, frame_queue, frame_size, frame_data, arrived, events>>
    /\ UNCHANGED nonConnVars

\* `while self.running:` is true: the body starts with
\* self._recv_exact(FRAME_HEADER_SIZE)
RecvLoopBody ==
    /\ rthread = "loop"
    /\ conn_running
    /\ rthread' = "header"
    /\ UNCHANGED <<sock, conn_running, frame_queue, frame_size, frame_data, arrived, events>>
    /\ UNCHANGED nonConnVars

RecvHeader_no_size_limit ==
    /\ rthread = "header"
    /\ \/ /\ conn_running' = FALSE
          /\ rthread' = "exited"
          /\ UNCHANGED <<frame_size, arrived>>
       \/ \E n \in FrameSizes :
          ~sock.closed /\
          \E size \in {decode_frame_size(_recv_exact(encode_frame_header(n), FRAME_HEADER_SIZE)).value} :
            /\ arrived < MaxFrames
            /\ arrived' = arrived + 1
            /\ frame_size' = size
            /\ conn_running' = conn_running
            /\ rthread' = "payload"
    /\ UNCHANGED <<sock, frame_queue, frame_data, events>>
    /\ UNCHANGED nonConnVars

\* header = self._recv_exact(FRAME_HEADER_SIZE); decode and validate the
\* frame size (lines 74-85).  While the peer sends nothing the thread stays
\* in _recv_exact, which goes on after every socket timeout (lines 128-129)
\* without looking at self.running.  recv on a socket that stop() has
\* closed raises, and _recv_exact returns None.
RecvHeader ==
    /\ rthread = "header"
    /\ \/ \* the stream is closed or fails: _recv_exact returns None
          /\ conn_running' = FALSE
          /\ rthread' = "exited"
          /\ UNCHANGED <<frame_size, arrived>>
       \/ \E n \in FrameSizes :
          ~sock.closed /\
          \E size \in {decode_frame_size(_recv_exact(encode_frame_header(n), FRAME_HEADER_SIZE)).value} :
            /\ arrived < MaxFrames
            /\ arrived' = arrived + 1
            /\ frame_size' = size
            /\ IF size > MAX_FRAME_SIZE
               THEN conn_running' = FALSE /\ rthread' = "exited"
               ELSE conn_running' = conn_running /\ rthread' = "payload"
    /\ UNCHANGED <<sock, frame_queue, frame_data, events>>
    /\ UNCHANGED nonConnVars

\* frame_data = self._recv_exact(frame_size); `if not frame_data: break`
\* (lines 88-91)
RecvPayload ==
    /\ rthread = "payload"
    /\ \/ \* the stream is closed or fails: _recv_exact returns None
          /\ conn_running' = FALSE
          /\ rthread' = "exited"
          /\ frame_data' = None
       \/ \* frame_size bytes arrive (none is read for frame_size 0, and
          \* b'' is falsy)
          IF frame_size = 0
          THEN /\ conn_running' = FALSE
               /\ rthread' = "exited"
               /\ frame_data' = EmptyBytes
          ELSE /\ ~sock.closed
               /\ conn_running' = conn_running
               /\ rthread' = "put"
               /\ frame_data' = Frame(arrived)
    /\ UNCHANGED <<sock, frame_queue, frame_size, arrived, events>>
    /\ UNCHANGED nonConnVars

\* try: self.frame_queue.put_nowait(frame_data) (lines 94-96)
PutNowait ==
    /\ rthread = "put"
    /\ \E r \in {put_nowait(frame_queue, frame_data)} :
         /\ frame_queue' = r.queue
         /\ rthread' = IF r.full THEN "discard" ELSE "loop"
         /\ events' = IF r.full THEN events ELSE Append(events, Event("put", frame_data))
    /\ UNCHANGED <<sock, conn_running, frame_size, frame_data, arrived>>
    /\ UNCHANGED nonConnVars

\* the discard step without the get_nowait()
DropOldest_nothing_discarded ==
    /\ rthread = "discard"
    /\ rthread' = "put2"
    /\ UNCHANGED <<sock, conn_running, frame_queue, frame_size, frame_data, arrived, events>>
    /\ UNCHANGED nonConnVars

\* try: self.frame_queue.get_nowait() except Empty: pass (lines 98-101)
DropOldest ==
    /\ rthread = "discard"
    /\ \E r \in {get_nowait(frame_queue)} :
         /\ frame_queue' = r.queue
         /\ events' = IF r.item = None THEN events ELSE Append(events, Event("drop", r.item))
    /\ rthread' = "put2"
    /\ UNCHANGED <<sock, conn_running, frame_size, frame_data, arrived>>
    /\ UNCHANGED nonConnVars

\* self.frame_queue.put_nowait(frame_data) (line 102); a Full raised here
\* is caught by `except Exception` and ends the loop
PutAgain ==
    /\ rthread = "put2"
    /\ \E r \in {put_nowait(frame_queue, frame_data)} :
         /\ frame_queue' = r.queue
         /\ rthread' = IF r.full THEN "exited" ELSE "loop"
         /\ conn_running' = IF r.full THEN FALSE ELSE conn_running
         /\ events' = IF r.full THEN events ELSE Append(events, Event("put", frame_data))
    /\ UNCHANGED <<sock, frame_size, frame_data, arrived>>
    /\ UNCHANGED nonConnVars

GetFrame_newest_first ==
    /\ Len(SelectSeq(events, LAMBDA e : e.op = "get")) < MaxGets
    /\ \E r \in {get_nowait_newest(frame_queue)} :
         /\ frame_queue' = r.queue
         /\ events' = Append(events, Event("get", r.item))
    /\ UNCHANGED <<sock, conn_running, rthread, frame_size, frame_data, arrived>>
    /\ UNCHANGED nonConnVars

\* get_frame(timeout): the oldest queued payload, or None when the queue
\* stays empty for the whole timeout
GetFrame ==
    /\ Len(SelectSeq(events, LAMBDA e : e.op = "get")) < MaxGets
    /\ \E r \in {get_nowait(frame_queue)} :
         /\ frame_queue' = r.queue
         /\ events' = Append(events, Event("get", r.item))
    /\ UNCHANGED <<sock, conn_running, rthread, frame_size, frame_data, arrived>>
    /\ UNCHANGED nonConnVars

\* stop(), up to the join: self.running = False
ConnStop ==
    /\ rthread # "new"
    /\ sock.stop = "idle"
    /\ conn_running' = FALSE
    /\ sock' = [sock EXCEPT !.stop = "join"]
    /\ UNCHANGED <<frame_queue, rthread, frame_size, frame_data, arrived, events>>
    /\ UNCHANGED nonConnVars

\* self.receive_thread.join(timeout=2.0) returns: the receive thread has
\* ended, or the 2 s have passed with the thread still inside a recv
ConnJoin ==
    /\ sock.stop = "join"
    /\ rthread \in {"exited", "header", "payload"}
    /\ sock' = [sock EXCEPT !.stop = "close", !.joined = (rthread = "exited")]
    /\ UNCHANGED <<conn_running, frame_queue, rthread, frame_size, frame_data, arrived, events>>
    /\ UNCHANGED nonConnVars

\* self.conn.close()
ConnClose ==
    /\ sock.stop = "close"
    /\ sock' = [sock EXCEPT !.stop = "done", !.closed = TRUE]
    /\ UNCHANGED <<conn_running, frame_queue, rthread, frame_size, frame_data, arrived, events>>
    /\ UNCHANGED nonConnVars

ConnNext ==
    \/ ConnStart
    \/ RecvLoopBody
    \/ RecvLoopEnd
    \/ RecvHeader
    \/ RecvPayload
    \/ PutNowait
    \/ DropOldest
    \/ PutAgain
    \/ GetFrame
    \/ ConnStop
    \/ ConnJoin
    \/ ConnClose

SpecConn == ConnInit /\ [][ConnNext]_vars

---------------------------------------------------------------------------
(* MotorCommand taken through the codec: either a command is chosen at    *)
(* the start, then encoded (or sent), then the bytes are decoded; or bytes *)
(* are chosen at the start, then decoded, then the command is encoded      *)

SpeedInputs == {-1, 0, 200, 255, 256}
DirectionInputs == {BACKWARD, FORWARD, STOP, 3}
DurationInputs == {-1, 0, 1, 255, 256, 65535, 65536}

\* byte strings handed to from_bytes: their lengths and their bytes
RawLengths == {0, 5, 6, 7}
ByteInputs == {0, 2, 3, 255}
RawInputs == UNION {[1..n -> ByteInputs] : n \in RawLengths}

CodecInit ==
    /\ \/ \E ls \in SpeedInputs, rs \in SpeedInputs, ld \in DirectionInputs,
             rd \in DirectionInputs, dur \in DurationInputs :
              codec = [step |-> "new", cmd |-> MotorCommand(ls, rs, ld, rd, dur),
                       wire |-> None, out |-> None]
       \/ \E data \in RawInputs :
              codec = [step |-> "raw", wire |-> data, out |-> None, back |-> None]
    /\ now = 0
    /\ motors = MotorControllerInit(FALSE, 0)
    /\ gpio = GpioInit
    /\ last = NoCall
    /\ writing = None
    /\ wd_stop = -1
    /\ wd_gap = -1
    /\ pc = "idle"
    /\ running = FALSE
    /\ network = NetworkClientInit
    /\ command = None
    /\ rx = None
    /\ ncall = NoClientCall
    /\ server = NetworkServerInit
    /\ controller = ServerControllerInit
    /\ sensors = UltrasonicSensorsInit(FALSE)
    /\ conn_running = FALSE
    /\ sock = SocketInit
    /\ frame_queue = <<>>
    /\ rthread = "new"
    /\ frame_size = 0
    /\ frame_data = None
    /\ arrived = 0
    /\ events = <<>>

\* server/network_server.py: CarConnection.send_command(command).  The
\* stream accepts `accepted` bytes before sendall() fails (COMMAND_SIZE or
\* more: it does not fail).  Any exception, of to_bytes() or of sendall(),
\* is caught and False is returned.
send_command(cmd, accepted) ==
    LET command_bytes == to_bytes(cmd)
    IN  IF command_bytes = ValueError
        THEN [written |-> <<>>, ret |-> FALSE]
        ELSE IF accepted >= Len(command_bytes)
        THEN [written |-> command_bytes, ret |-> TRUE]
        ELSE [written |-> SubSeq(command_bytes, 1, accepted), ret |-> FALSE]

SendCommand ==
    /\ codec.step = "new"
    /\ \E accepted \in 0..COMMAND_SIZE :
       \E r \in {send_command(codec.cmd, accepted)} :
         codec' = [codec EXCEPT !.step = "sent", !.wire = r.written, !.out = r.ret]
    /\ UNCHANGED nonCodecVars

Encode ==
    /\ codec.step = "new"
    /\ codec' = [codec EXCEPT !.step = "encoded", !.wire = to_bytes(codec.cmd)]
    /\ UNCHANGED nonCodecVars

Decode ==
    /\ codec.step = "encoded"
    /\ codec.wire # ValueError
    /\ codec' = [codec EXCEPT !.step = "decoded", !.out = from_bytes(codec.wire)]
    /\ UNCHANGED nonCodecVars

\* from_bytes on bytes that come from anywhere
DecodeRaw ==
    /\ codec.step = "raw"
    /\ codec' = [codec EXCEPT !.step = "parsed", !.out = from_bytes(codec.wire)]
    /\ UNCHANGED nonCodecVars

\* to_bytes on the command from_bytes returned
EncodeParsed ==
    /\ codec.step = "parsed"
    /\ codec.out # ValueError
    /\ codec' = [codec EXCEPT !.step = "reencoded", !.back = to_bytes(codec.out)]
    /\ UNCHANGED nonCodecVars

CodecNext ==
    \/ Encode
    \/ Decode
    \/ SendCommand
    \/ DecodeRaw
    \/ EncodeParsed

SpecCodec == CodecInit /\ [][CodecNext]_vars

---------------------------------------------------------------------------
(* A payload taken through FrameProtocol: it is framed, then the frame is *)
(* split into header and payload again; or a header of any length is      *)
(* handed to decode_frame_size                                             *)

\* run lengths and byte values of the payloads
RunLengths == {1, 255, 256, 65536, MAX_FRAME_SIZE - 1, MAX_FRAME_SIZE}
RunBytes == {0, 255}
Runs == {Run(n, b) : n \in RunLengths, b \in RunBytes}
Payloads == {<<>>} \cup {<<r>> : r \in Runs} \cup {<<r1, r2>> : r1 \in Runs, r2 \in Runs}

HeaderLengths == {0, 3, 4, 5}
\* the first byte stays below 128: sizes of 2^31 and more are not modelled
HeaderBytes == {0, 1, 127, 255}
Headers ==
    {h \in UNION {[1..n -> HeaderBytes] : n \in HeaderLengths} :
        Len(h) > 0 => h[1] <= 127}

FrameInit ==
    /\ \/ \E payload \in Payloads :
              codec = [step |-> "payload", payload |-> payload, frame |-> None,
                       size |-> None, rest |-> None]
       \/ \E header \in Headers :
              codec = [step |-> "header", header |-> header, size |-> None]
    /\ now = 0
    /\ motors = MotorControllerInit(FALSE, 0)
    /\ gpio = GpioInit
    /\ last = NoCall
    /\ writing = None
    /\ wd_stop = -1
    /\ wd_gap = -1
    /\ pc = "idle"
    /\ running = FALSE
    /\ network = NetworkClientInit
    /\ command = None
    /\ rx = None
    /\ ncall = NoClientCall
    /\ server = NetworkServerInit
    /\ controller = ServerControllerInit
    /\ sensors = UltrasonicSensorsInit(FALSE)
    /\ conn_running = FALSE
    /\ sock = SocketInit
    /\ frame_queue = <<>>
    /\ rthread = "new"
    /\ frame_size = 0
    /\ frame_data = None
    /\ arrived = 0
    /\ events = <<>>

EncodeFrame ==
    /\ codec.step = "payload"
    /\ codec' = [codec EXCEPT !.step = "framed", !.frame = encode_frame(codec.payload)]
    /\ UNCHANGED nonCodecVars

\* decode_frame_size(frame[:4]) and frame[4:]
SplitFrame ==
    /\ codec.step = "framed"
    /\ codec' = [codec EXCEPT
                   !.step = "unframed",
                   !.size = decode_frame_size(Expand(TakeBytes(codec.frame, 4))),
                   !.rest = DropBytes(codec.frame, 4)]
    /\ UNCHANGED nonCodecVars

DecodeHeader ==
    /\ codec.step = "header"
    /\ codec' = [codec EXCEPT !.step = "header_decoded",
                               !.size = decode_frame_size(codec.header)]
    /\ UNCHANGED nonCodecVars

FrameNext ==
    \/ EncodeFrame
    \/ SplitFrame
    \/ DecodeHeader

SpecFrame == FrameInit /\ [][FrameNext]_vars

---------------------------------------------------------------------------
(* server/command_generator.py: CommandGenerator.parse_response.          *)
(* A text is a sequence of tokens: the literal "COMMAND:", "REASONING:"   *)
(* in upper case or in another case ("reasoning:"), "command:" in lower   *)
(* case, a run of digits ("num"), a comma, a run of blanks ("sp"), a line *)
(* end ("nl") and a run of letters ("word").  Two tokens that follow each *)
(* other are adjacent characters of the text.                             *)

Tk(t) == [t |-> t, v |-> 0, s |-> "", huge |-> FALSE]
Num(v) == [Tk("num") EXCEPT !.v = v]
Word(s) == [Tk("word") EXCEPT !.s = s]
SP == Tk("sp")
NL == Tk("nl")
COMMA == Tk(",")

\* stands for the value of a run of digits too long for int() on an
\* interpreter that limits the length of integer strings
HugeValue == 2147483647
HugeNum == [Tk("num") EXCEPT !.v = HugeValue, !.huge = TRUE]

\* int(s): raises ValueError for a huge run of digits when the interpreter
\* limits integer strings (CPython 3.11 and later), else the value
int(tok, limited) == IF tok.huge /\ limited THEN ValueError ELSE Return(tok.v)

min(a, b) == IF a <= b THEN a ELSE b
max(a, b) == IF a >= b THEN a ELSE b

\* \s matches blanks and line ends alike
IsSpace(tok) == tok.t \in {"sp", "nl"}

\* \s* from position i: the position of the first token that is not space
RECURSIVE skip_space(_, _)
skip_space(text, i) ==
    IF i <= Len(text) /\ IsSpace(text[i]) THEN skip_space(text, i + 1) ELSE i

\* the rest of a pattern of numbers and commas, each after \s*, matched
\* from position i: the numbers matched, or None
RECURSIVE match_fields(_, _, _, _)
match_fields(text, i, pattern, groups) ==
    IF pattern = <<>> THEN Return(groups)
    ELSE LET j == skip_space(text, i)
         IN  IF j > Len(text) \/ text[j].t # Head(pattern) THEN None
             ELSE match_fields(text, j + 1, Tail(pattern),
                               IF Head(pattern) = "num"
                               THEN Append(groups, text[j]) ELSE groups)

\* COMMAND:\s*(\d+)\s*,\s*(\d+)\s*,\s*(\d+)\s*,\s*(\d+) at position p
command_pattern == <<"num", ",", "num", ",", "num", ",", "num">>
command_match_at(text, p) ==
    IF text[p].t = "COMMAND:" THEN match_fields(text, p + 1, command_pattern, <<>>)
    ELSE None

\* re.search: the leftmost match
RECURSIVE command_search(_, _)
command_search(text, p) ==
    IF p > Len(text) THEN None
    ELSE IF command_match_at(text, p) # None THEN command_match_at(text, p)
    ELSE command_search(text, p + 1)

\* (.+?)(?:\n|$) from position i: the tokens up to the end of the line
RECURSIVE rest_of_line(_, _)
rest_of_line(text, i) ==
    IF i > Len(text) \/ text[i].t = "nl" THEN <<>>
    ELSE <<text[i]>> \o rest_of_line(text, i + 1)

\* str.strip() of text that starts with a token that is not space
RECURSIVE strip(_)
strip(s) ==
    IF s # <<>> /\ IsSpace(s[Len(s)]) THEN strip(SubSeq(s, 1, Len(s) - 1)) ELSE s

\* REASONING:\s*(.+?)(?:\n|$) with re.IGNORECASE, leftmost match, group 1
\* stripped; the empty text when there is no match.  After \s* has taken
\* every blank and line end, the group starts at the next token, on
\* whichever line it is; when only space follows, the group is blank.
RECURSIVE reasoning_search(_, _)
reasoning_search(text, p) ==
    IF p > Len(text) THEN <<>>
    ELSE IF text[p].t \in {"REASONING:", "reasoning:"}
         THEN strip(rest_of_line(text, skip_space(text, p + 1)))
         ELSE reasoning_search(text, p + 1)

\* a token that starts, or ends, with a letter or a digit
StartsWithWordChar(tok) ==
    tok.t \in {"num", "word", "COMMAND:", "command:", "REASONING:", "reasoning:"}
EndsWithWordChar(tok) == tok.t \in {"num", "word"}

\* re.findall(r'\b(\d+)\b'): the runs of digits with a word boundary on
\* both sides, in text order
RECURSIVE findall_numbers(_, _)
findall_numbers(text, i) ==
    IF i > Len(text) THEN <<>>
    ELSE IF /\ text[i].t = "num"
            /\ (i > 1 => ~EndsWithWordChar(text[i - 1]))
            /\ (i < Len(text) => ~StartsWithWordChar(text[i + 1]))
         THEN <<text[i]>> \o findall_numbers(text, i + 1)
         ELSE findall_numbers(text, i + 1)

\* the command built from four matched numbers: int() of each, then the
\* clamps; None when an int() raises (the exception is caught and logged)
clamped_command_no_clamp(n, limited) ==
    IF \E k \in 1..4 : int(n[k], limited) = ValueError THEN None
    ELSE MotorCommand(n[1].v, n[2].v, n[3].v, n[4].v, 0)

clamped_command(n, limited) ==
    IF \E k \in 1..4 : int(n[k], limited) = ValueError THEN None
    ELSE MotorCommand(max(0, min(255, n[1].v)), max(0, min(255, n[2].v)),
                      max(0, min(2, n[3].v)), max(0, min(2, n[4].v)), 0)

parse_response(response, limited) ==
    LET command_match == command_search(response, 1)
        primary == IF command_match # None
                   THEN clamped_command(command_match.value, limited) ELSE None
        numbers == findall_numbers(response, 1)
        cmd == IF primary # None THEN primary
               ELSE IF Len(numbers) >= 4 THEN clamped_command(numbers, limited)
               ELSE None
    IN  [command |-> cmd, reasoning |-> reasoning_search(response, 1)]

---------------------------------------------------------------------------
(* parse_response applied to oracle texts of up to MaxLines lines *)

CommandLine(a, b, c, d) ==
    <<Tk("COMMAND:"), SP, a, COMMA, b, COMMA, c, COMMA, d>>

CommandLines ==
    {CommandLine(Num(a), Num(150), Num(c), Num(d)) :
         a \in {0, 255, 300}, c \in {1, 7}, d \in {0, 3}}
    \cup {CommandLine(HugeNum, Num(150), Num(1), Num(1)),
          <<Tk("COMMAND:"), Num(9), COMMA, SP, Num(9), SP, COMMA, Num(2), COMMA, Num(2)>>,
          <<Tk("COMMAND:"), SP, Num(5), COMMA, Num(5), COMMA, Num(1)>>,
          <<Tk("COMMAND:")>>,
          <<Tk("command:"), SP, Num(1), COMMA, Num(2), COMMA, Num(1), COMMA, Num(1)>>}

ReasoningLines ==
    {<<Tk("REASONING:"), SP, Word("turning")>>,
     <<Tk("REASONING:")>>,
     <<Tk("REASONING:"), SP>>,
     <<Tk("reasoning:"), SP, Word("clear"), SP, Word("path"), SP>>}

TextLines ==
    {<<>>,
     <<Word("go"), SP, Num(180), SP, Num(180), SP, Num(1), SP, Num(1), SP, Word("now")>>,
     <<Word("step"), SP, Num(4)>>,
     <<Word("v"), Num(2)>>,
     <<HugeNum, SP, Num(1), SP, Num(1), SP, Num(1)>>}

Lines == CommandLines \cup ReasoningLines \cup TextLines

\* "\n".join(lines)
RECURSIVE join(_)
join(lines) ==
    IF lines = <<>> THEN <<>>
    ELSE IF Len(lines) = 1 THEN lines[1]
    ELSE lines[1] \o <<NL>> \o join(Tail(lines))

Responses == {join(ls) : ls \in UNION {[1..n -> Lines] : n \in 1..MaxLines}}

ParseInit ==
    /\ \E response \in Responses, limited \in BOOLEAN :
           codec = [step |-> "response", response |-> response, limited |-> limited]
    /\ server = NetworkServerInit
    /\ controller = ServerControllerInit
    /\ sensors = UltrasonicSensorsInit(FALSE)
    /\ ncall = NoClientCall
    /\ pc = "idle"
    /\ running = FALSE
    /\ network = NetworkClientInit
    /\ command = None
    /\ rx = None
    /\ now = 0
    /\ motors = MotorControllerInit(FALSE, 0)
    /\ gpio = GpioInit
    /\ last = NoCall
    /\ writing = None
    /\ wd_stop = -1
    /\ wd_gap = -1
    /\ conn_running = FALSE
    /\ sock = SocketInit
    /\ frame_queue = <<>>
    /\ rthread = "new"
    /\ frame_size = 0
    /\ frame_data = None
    /\ arrived = 0
    /\ events = <<>>

ParseResponse ==
    /\ codec.step = "response"
    /\ \E r \in {parse_response(codec.response, codec.limited)} :
           codec' = [step |-> "parsed", response |-> codec.response,
                     limited |-> codec.limited,
                     command |-> r.command, reasoning |-> r.reasoning]
    /\ UNCHANGED nonCodecVars

ParseNext == ParseResponse

SpecParse == ParseInit /\ [][ParseNext]_vars

---------------------------------------------------------------------------
(* server/command_generator.py: SimpleCommandParser.parse.  A command     *)
(* string is a sequence of the same tokens; a "num" with a negative value *)
(* is a minus sign followed by digits, a "word" may be in upper case.     *)

\* command_str.lower().strip(): every word in lower case, the blanks at
\* both ends removed
lower_strip(command_str) ==
    LET low == [i \in DOMAIN command_str |->
                   IF command_str[i] = Word("FORWARD") THEN Word("forward")
                   ELSE IF command_str[i] = Word("Stop") THEN Word("stop")
                   ELSE command_str[i]]
    IN  strip(SubSeq(low, skip_space(low, 1), Len(low)))

\* s.split(sep): the parts between the tokens of kind sep, empty ones kept
RECURSIVE split_at(_, _)
split_at(s, sep) ==
    IF \A i \in DOMAIN s : s[i].t # sep THEN <<s>>
    ELSE LET i == CHOOSE i \in DOMAIN s :
                      s[i].t = sep /\ \A j \in 1..(i - 1) : s[j].t # sep
         IN  <<SubSeq(s, 1, i - 1)>> \o split_at(SubSeq(s, i + 1, Len(s)), sep)

\* int(s) of a string: a value for a run of digits, with or without sign
\* and with blanks around it, else ValueError
int_str(s, limited) ==
    LET digits == strip(SubSeq(s, skip_space(s, 1), Len(s)))
    IN  IF Len(digits) = 1 /\ digits[1].t = "num"
        THEN int(digits[1], limited)
        ELSE ValueError

\* the result is a MotorCommand, None, or the exception the call raises
parse(command_str, limited) ==
    LET str == lower_strip(command_str)
        quad == split_at(str, ",")
        \* int(parts[k].strip())
        field(k) == int_str(quad[k], limited)
        \* lines 233-244: the command of the numeric format, or None when
        \* the text has another form or the try block raised
        numeric ==
            IF /\ \E i \in DOMAIN str : str[i].t = ","
               /\ Len(quad) = 4
               /\ \A k \in 1..4 : field(k) # ValueError
               /\ field(3).value \in Direction
               /\ field(4).value \in Direction
            THEN MotorCommand(field(1).value, field(2).value,
                              field(3).value, field(4).value, 0)
            ELSE None
        \* str.split(): the parts between runs of blanks
        nonempty(p) == p # <<>>
        parts == SelectSeq(split_at(str, "sp"), nonempty)
        cmd == IF parts # <<>> THEN parts[1] ELSE <<>>
        speed == IF Len(parts) > 1 THEN int_str(parts[2], limited) ELSE Return(200)
        named(names) == cmd \in {<<Word(n)>> : n \in names}
    IN  IF numeric # None THEN numeric
        ELSE IF speed = ValueError THEN ValueError
        ELSE IF named({"stop", "s"}) THEN stop
        ELSE IF named({"forward", "f", "fwd"}) THEN forward(speed.value)
        ELSE IF named({"backward", "b", "back"}) THEN backward(speed.value)
        ELSE IF named({"left", "l", "rotate_left"}) THEN rotate_left(speed.value)
        ELSE IF named({"right", "r", "rotate_right"}) THEN rotate_right(speed.value)
        ELSE None

---------------------------------------------------------------------------
(* SimpleCommandParser.parse applied to lines typed in manual control *)

CommandNames ==
    {"stop", "s", "forward", "f", "fwd", "backward", "b", "back", "left", "l",
     "rotate_left", "right", "r", "rotate_right", "FORWARD", "Stop", "hello"}

SpeedTexts == {Num(0), Num(150), Num(255), Num(300), Num(-1), HugeNum, Word("fast")}

NumericFormats ==
    {<<Num(a), COMMA, Num(200), COMMA, Num(c), COMMA, Num(1)>> :
         a \in {200, 300, -1}, c \in {0, 1, 3}}
    \cup {<<SP, Num(200), SP, COMMA, SP, Num(200), SP, COMMA, Num(1), COMMA, SP, Num(1), SP>>,
          <<Num(1), COMMA, Num(2), COMMA, Num(3)>>,
          <<Word("a"), COMMA, Word("b"), COMMA, Word("c"), COMMA, Word("d")>>,
          <<Num(1), COMMA, Num(2), COMMA, Word("x"), COMMA, Num(1)>>,
          <<Num(1), COMMA, SP, Num(2), COMMA, SP, Word("x"), COMMA, SP, Num(1)>>,
          <<Num(1), COMMA, SP, Num(1), COMMA, SP, Num(3), COMMA, SP, Num(1)>>,
          <<HugeNum, COMMA, Num(1), COMMA, Num(1), COMMA, Num(1)>>,
          <<Word("forward"), COMMA, Num(200)>>,
          <<Word("forward"), SP, Num(2), COMMA, Num(0)>>}

CommandStrings ==
    {<<>>, <<SP>>, <<Num(5)>>, <<Word("f"), SP, Num(1), SP, Num(2)>>,
     <<Word("f"), SP, Num(1), SP, Word("x")>>}
    \cup {<<Word(n)>> : n \in CommandNames}
    \cup {<<SP, Word(n), SP>> : n \in CommandNames}
    \cup {<<Word(n), SP, v>> : n \in CommandNames, v \in SpeedTexts}
    \cup NumericFormats

SimpleInit ==
    /\ \E command_str \in CommandStrings, limited \in BOOLEAN :
           codec = [step |-> "command_str", command_str |-> command_str,
                    limited |-> limited]
    /\ server = NetworkServerInit
    /\ controller = ServerControllerInit
    /\ sensors = UltrasonicSensorsInit(FALSE)
    /\ ncall = NoClientCall
    /\ pc = "idle"
    /\ running = FALSE
    /\ network = NetworkClientInit
    /\ command = None
    /\ rx = None
    /\ now = 0
    /\ motors = MotorControllerInit(FALSE, 0)
    /\ gpio = GpioInit
    /\ last = NoCall
    /\ writing = None
    /\ wd_stop = -1
    /\ wd_gap = -1
    /\ conn_running = FALSE
    /\ sock = SocketInit
    /\ frame_queue = <<>>
    /\ rthread = "new"
    /\ frame_size = 0
    /\ frame_data = None
    /\ arrived = 0
    /\ events = <<>>

\* command = SimpleCommandParser.parse(command_str)
SimpleParse ==
    /\ codec.step = "command_str"
    /\ \E r \in {parse(codec.command_str, codec.limited)} :
           codec' = [step |-> "parse", command_str |-> codec.command_str,
                     limited |-> codec.limited, command |-> r]
    /\ UNCHANGED nonCodecVars

SimpleNext == SimpleParse

SpecSimple == SimpleInit /\ [][SimpleNext]_vars

---------------------------------------------------------------------------
(* server/server_control.py: ServerController.run_ai_control.             *)

\* server/config.py
emergency_stop_on_error == TRUE

\* exceptions: the one process_with_history may raise, and the one raised
\* by an attribute that the object does not have
RuntimeError == [error |-> "RuntimeError"]
AttributeError == [error |-> "AttributeError"]

\* what the oracle (VisionModel.process_with_history) may do for a frame:
\* return a text of one line, or raise
OracleOutcomes == {Return(t) : t \in Lines} \cup {RuntimeError}

\* The try statement of one round, for a frame that was received: oracle
\* is the text process_with_history returned, or the exception it raised.
\* parse_response returns the tuple (command, reasoning); the next
\* statement reads `parsed.command`, which a tuple does not have, so the
\* round continues in the except clause with AttributeError.
process_frame_no_stop_on_error(oracle, limited) ==
    LET failed == "error" \in DOMAIN oracle
    IN  [parsed |-> IF failed THEN None ELSE parse_response(oracle.value, limited),
         raised |-> IF failed THEN oracle ELSE AttributeError,
         send_command |-> None]

process_frame(oracle, limited) ==
    LET failed == "error" \in DOMAIN oracle
    IN  [parsed |-> IF failed THEN None ELSE parse_response(oracle.value, limited),
         raised |-> IF failed THEN oracle ELSE AttributeError,
         send_command |-> IF emergency_stop_on_error THEN Return(stop) ELSE None]

ControlInit ==
    /\ \E limited \in BOOLEAN :
           controller = [ServerControllerInit EXCEPT !.limited = limited]
    /\ sensors = UltrasonicSensorsInit(FALSE)
    /\ server = NetworkServerInit
    /\ ncall = NoClientCall
    /\ pc = "idle"
    /\ running = FALSE
    /\ network = NetworkClientInit
    /\ command = None
    /\ rx = None
    /\ now = 0
    /\ motors = MotorControllerInit(FALSE, 0)
    /\ gpio = GpioInit
    /\ last = NoCall
    /\ writing = None
    /\ wd_stop = -1
    /\ wd_gap = -1
    /\ conn_running = FALSE
    /\ sock = SocketInit
    /\ frame_queue = <<>>
    /\ rthread = "new"
    /\ frame_size = 0
    /\ frame_data = None
    /\ arrived = 0
    /\ events = <<>>
    /\ codec = [step |-> "idle"]

\* main(): controller.start(), then run_ai_control(goal) up to its loop
ControllerStart ==
    /\ controller.pc = "init"
    /\ controller' = [controller EXCEPT !.running = TRUE, !.pc = "loop"]
    /\ UNCHANGED nonControllerVars

\* one round of `while self.running`: conn tells whether
\* get_active_connection() returned a connection, frame whether get_frame
\* returned a payload, ok what send_command returns
AIControlRound ==
    /\ controller.pc = "loop"
    /\ controller.running
    /\ \E conn \in BOOLEAN, frame \in BOOLEAN, ok \in BOOLEAN :
         \E oracle \in OracleOutcomes :
           /\ (~conn \/ ~frame) => (oracle = RuntimeError /\ ~ok)
           /\ ~conn => ~frame
           /\ \E r \in {process_frame(oracle, controller.limited)} :
                controller' = [controller EXCEPT !.step =
                    IF conn /\ frame
                    THEN [seq |-> 1 - controller.step.seq, conn |-> TRUE,
                          frame |-> TRUE,
                          response |-> IF oracle = RuntimeError THEN None ELSE oracle,
                          parsed |-> r.parsed, raised |-> r.raised,
                          send_command |-> r.send_command,
                          sent |-> r.send_command # None /\ ok]
                    ELSE [NoStep EXCEPT !.seq = 1 - controller.step.seq,
                                        !.conn = conn]]
    /\ UNCHANGED nonControllerVars

\* signal_handler of main(): controller.stop() clears running and stops the
\* network server, which empties the registry; sys.exit(0) then unwinds
\* run_ai_control through its finally clause, where
\* get_active_connection() finds no connection and nothing is sent
ControllerSignal ==
    /\ controller.pc = "loop"
    /\ controller' = [controller EXCEPT !.running = FALSE, !.pc = "done"]
    /\ UNCHANGED nonControllerVars

ControlNext ==
    \/ ControllerStart
    \/ AIControlRound
    \/ ControllerSignal

SpecControl == ControlInit /\ [][ControlNext]_vars

---------------------------------------------------------------------------
(* pi/ultrasonic_sensors.py: UltrasonicSensors.  Times are in             *)
(* microseconds, counted from the trigger pulse.  Distances are in units  *)
(* of 1/20000 cm, so that (pulse_duration * 0.0343) / 2 cm is exactly     *)
(* pulse_duration * 343 units.                                            *)

SENSORS == {"FC", "FL", "FR", "RL", "RR"}

\* 0.0343 cm per microsecond, in units of 1/10000 cm
SPEED_OF_SOUND_CM_US == 343

\* pi/config.py: 0.04 s, and distances in cm
ultrasonic_timeout == 40000
ultrasonic_min_distance == 2
ultrasonic_max_distance == 400
collision_stop_distance == 15

\* a distance of x cm
Cm(x) == x * 20000

SensorReading(distance_cm, valid, timestamp) ==
    [distance_cm |-> distance_cm, valid |-> valid, timestamp |-> timestamp]

\* `while GPIO.input(echo_pin) == level: t = time.time();
\*  if t - start > config.ultrasonic_timeout: return ...`
\* times are the clock readings made after the polls that read `level`, the
\* poll after the last of them reads the other level; k is the next poll and
\* t the latest clock reading
\* the loop without its timeout: it ends when the level changes
poll_loop_no_timeout(times, k, start, t) ==
    [timed_out |-> FALSE,
     time |-> IF times = <<>> THEN t ELSE times[Len(times)],
     polls |-> Len(times) + 1]

RECURSIVE poll_loop(_, _, _, _)
poll_loop(times, k, start, t) ==
    IF k > Len(times)
    THEN [timed_out |-> FALSE, time |-> t, polls |-> Len(times) + 1]
    ELSE IF times[k] - start > ultrasonic_timeout
         THEN [timed_out |-> TRUE, time |-> times[k], polls |-> k]
         ELSE poll_loop(times, k + 1, start, times[k])

\* lines 183-189 with the far reading not clamped
classify_far_not_clamped(distance_cm, timestamp) ==
    IF distance_cm < Cm(ultrasonic_min_distance)
    THEN SensorReading(distance_cm, FALSE, timestamp)
    ELSE IF distance_cm > Cm(ultrasonic_max_distance)
         THEN SensorReading(distance_cm, FALSE, timestamp)
         ELSE SensorReading(distance_cm, TRUE, timestamp)

\* lines 183-189: validate range
classify(distance_cm, timestamp) ==
    IF distance_cm < Cm(ultrasonic_min_distance)
    THEN SensorReading(distance_cm, FALSE, timestamp)
    ELSE IF distance_cm > Cm(ultrasonic_max_distance)
         THEN SensorReading(Cm(ultrasonic_max_distance), FALSE, timestamp)
         ELSE SensorReading(distance_cm, TRUE, timestamp)

\* An echo is what the hardware does during one read_sensor:
\*   fault  the GPIO operation that raises: "none", "trigger" (an output of
\*          the trigger pulse), "echo_start" / "echo_end" (the poll that
\*          would have seen the echo start / end)
\*   lows   clock readings after the polls that read LOW before the echo
\*   highs  clock readings after the polls that read HIGH during the echo,
\*          counted from pulse_start
\*   fake   random.uniform(-20, 100) + 50, in cm (simulation mode)
\* The result holds the reading and what the two loops did.
read_sensor_trace(self, key, echo, timestamp) ==
    LET invalid == SensorReading(0, FALSE, timestamp)
        rise == poll_loop(echo.lows, 1, 0, 0)
        pulse_start == rise.time
        fall == poll_loop([k \in 1..Len(echo.highs) |-> pulse_start + echo.highs[k]],
                          1, pulse_start, pulse_start)
        pulse_end == fall.time
        pulse_duration == pulse_end - pulse_start
        distance_cm == pulse_duration * SPEED_OF_SOUND_CM_US
        Trace(reading, polls1, polls2, pulse) ==
            [reading |-> reading, polls1 |-> polls1, polls2 |-> polls2,
             pulse_duration |-> pulse]
    IN  IF self.simulate
        THEN Trace(SensorReading(Cm(max(ultrasonic_min_distance,
                                        min(echo.fake, ultrasonic_max_distance))),
                                 TRUE, timestamp), 0, 0, -1)
        ELSE IF ~self.initialized THEN Trace(invalid, 0, 0, -1)
        ELSE IF key \notin SENSORS THEN Trace(invalid, 0, 0, -1)
        ELSE IF echo.fault = "trigger" THEN Trace(invalid, 0, 0, -1)
        ELSE IF rise.timed_out THEN Trace(invalid, rise.polls, 0, -1)
        ELSE IF echo.fault = "echo_start" THEN Trace(invalid, rise.polls, 0, -1)
        ELSE IF fall.timed_out THEN Trace(invalid, rise.polls, fall.polls, -1)
        ELSE IF echo.fault = "echo_end" THEN Trace(invalid, rise.polls, fall.polls, -1)
        ELSE Trace(classify(distance_cm, timestamp), rise.polls, fall.polls,
                   pulse_duration)

read_sensor(self, key, echo, timestamp) ==
    read_sensor_trace(self, key, echo, timestamp).reading

\* read_front / read_rear: echoes maps each key of the zone to its echo
read_front(self, echoes, timestamp) ==
    [key \in {"FC", "FL", "FR"} |-> read_sensor(self, key, echoes[key], timestamp)]

read_rear(self, echoes, timestamp) ==
    [key \in {"RL", "RR"} |-> read_sensor(self, key, echoes[key], timestamp)]

\* the minimum taken over every reading of the zone, valid or not
get_min_front_distance_all_readings(self, echoes, timestamp) ==
    LET readings == read_front(self, echoes, timestamp)
        distances == {readings[key].distance_cm : key \in DOMAIN readings}
    IN  CHOOSE d \in distances : \A e \in distances : d <= e

get_min_front_distance(self, echoes, timestamp) ==
    LET readings == read_front(self, echoes, timestamp)
        valid_distances ==
            {readings[key].distance_cm : key \in {k \in DOMAIN readings : readings[k].valid}}
    IN  IF valid_distances # {}
        THEN CHOOSE d \in valid_distances : \A e \in valid_distances : d <= e
        ELSE Cm(ultrasonic_max_distance)

get_min_rear_distance(self, echoes, timestamp) ==
    LET readings == read_rear(self, echoes, timestamp)
        valid_distances ==
            {readings[key].distance_cm : key \in {k \in DOMAIN readings : readings[k].valid}}
    IN  IF valid_distances # {}
        THEN CHOOSE d \in valid_distances : \A e \in valid_distances : d <= e
        ELSE Cm(ultrasonic_max_distance)

\* the result holds the aggregate next to the answer
check_collision_risk(self, direction, echoes, timestamp) ==
    LET min_dist == IF direction = "forward"
                    THEN get_min_front_distance(self, echoes, timestamp)
                    ELSE get_min_rear_distance(self, echoes, timestamp)
    IN  [min_dist |-> min_dist, risk |-> min_dist < Cm(collision_stop_distance)]

---------------------------------------------------------------------------
(* UltrasonicSensors driven call by call *)

\* increasing sequences of at most MaxPolls clock readings taken from S
Readings(S) ==
    {s \in UNION {[1..n -> S] : n \in 0..MaxPolls} :
        \A i \in 1..Len(s) : i > 1 => s[i - 1] < s[i]}

\* clock readings before the echo, and during it: 58 us is an echo from
\* 1 cm, 117 us from 2 cm, 583 us from 10 cm, 5831 us from 100 cm, 23323 us
\* from just under 400 cm, 29155 us from 500 cm
LowTimes == {10, ultrasonic_timeout, ultrasonic_timeout + 1}
HighTimes == {58, 116, 117, 583, 5831, 23323, 23324, 29155, ultrasonic_timeout + 1}
FakeDistances == {30, 50, 150}

Echoes ==
    {[fault |-> "none", lows |-> l, highs |-> h, fake |-> 50] :
        l \in Readings(LowTimes), h \in Readings(HighTimes)}
    \cup {[fault |-> f, lows |-> <<>>, highs |-> <<>>, fake |-> 50] :
             f \in {"trigger", "echo_start", "echo_end"}}
    \cup {[fault |-> "none", lows |-> <<>>, highs |-> <<5831>>, fake |-> d] :
             d \in FakeDistances}

\* echoes with one poll at most in each loop
BasicEchoes == {e \in Echoes : Len(e.lows) <= 1 /\ Len(e.highs) <= 1}

\* echoes of a zone check: no echo within the timeout, echoes from 1 cm,
\* 10 cm, 100 cm and 500 cm, and a second simulated distance
ZoneEchoes ==
    {[fault |-> "none", lows |-> <<ultrasonic_timeout + 1>>, highs |-> <<>>, fake |-> 50]}
    \cup {[fault |-> "none", lows |-> <<>>, highs |-> <<h>>, fake |-> 50] :
             h \in {58, 583, 5831, 29155}}
    \cup {[fault |-> "none", lows |-> <<>>, highs |-> <<5831>>, fake |-> 30]}

Directions == {"forward", "backward"}

SensorKeys == SENSORS \cup {"XX"}

SensorCall(op, fields) ==
    [op |-> op, seq |-> 1 - sensors.call.seq] @@ fields

SensorCalled(op) == sensors'.call.seq # sensors.call.seq /\ sensors'.call.op = op

SensorInit ==
    /\ \E simulate \in BOOLEAN : sensors = UltrasonicSensorsInit(simulate)
    /\ controller = ServerControllerInit
    /\ server = NetworkServerInit
    /\ ncall = NoClientCall
    /\ pc = "idle"
    /\ running = FALSE
    /\ network = NetworkClientInit
    /\ command = None
    /\ rx = None
    /\ now = 0
    /\ motors = MotorControllerInit(FALSE, 0)
    /\ gpio = GpioInit
    /\ last = NoCall
    /\ writing = None
    /\ wd_stop = -1
    /\ wd_gap = -1
    /\ conn_running = FALSE
    /\ sock = SocketInit
    /\ frame_queue = <<>>
    /\ rthread = "new"
    /\ frame_size = 0
    /\ frame_data = None
    /\ arrived = 0
    /\ events = <<>>
    /\ codec = [step |-> "idle"]

SensorSetup ==
    /\ ~sensors.initialized
    /\ sensors' = [sensors EXCEPT !.initialized = TRUE,
                                  !.call = SensorCall("setup", <<>>)]
    /\ UNCHANGED nonSensorVars

SensorCleanup ==
    /\ sensors' = [sensors EXCEPT
           !.initialized = IF sensors.simulate THEN sensors.initialized ELSE FALSE,
           !.call = SensorCall("cleanup", <<>>)]
    /\ UNCHANGED nonSensorVars

\* read_sensor(key): the call records the reading, what the loops did and
\* what the polls saw (rise_late / fall_late: a clock reading of the first /
\* second loop lies more than the timeout after the loop's start; late1 /
\* late2: the first poll for which that is so, 0 if none)
ReadSensor ==
    /\ \E key \in SensorKeys :
        \E echo \in IF key = "FC" THEN Echoes ELSE BasicEchoes :
         LET late1 == {k \in 1..Len(echo.lows) : echo.lows[k] > ultrasonic_timeout}
             late2 == {k \in 1..Len(echo.highs) : echo.highs[k] > ultrasonic_timeout}
             First(S) == IF S = {} THEN 0 ELSE CHOOSE k \in S : \A j \in S : k <= j
         IN  \E r \in {read_sensor_trace(sensors, key, echo, now)} :
               sensors' = [sensors EXCEPT !.call =
                   SensorCall("read_sensor",
                       [key |-> key, fault |-> echo.fault,
                        late1 |-> First(late1), late2 |-> First(late2),
                        reading |-> r.reading, polls1 |-> r.polls1,
                        polls2 |-> r.polls2,
                        pulse_duration |-> r.pulse_duration])]
    /\ UNCHANGED nonSensorVars

\* check_collision_risk(direction): the call records the readings of the
\* zone that was read, the aggregate and the answer
CheckCollisionRisk ==
    /\ \E direction \in Directions :
        \E echoes \in [IF direction = "forward" THEN {"FC", "FL", "FR"}
                                                 ELSE {"RL", "RR"} -> ZoneEchoes] :
         \E r \in {check_collision_risk(sensors, direction, echoes, now)} :
            sensors' = [sensors EXCEPT !.call =
                SensorCall("check_collision_risk",
                    [direction |-> direction,
                     readings |-> IF direction = "forward"
                                  THEN read_front(sensors, echoes, now)
                                  ELSE read_rear(sensors, echoes, now),
                     min_dist |-> r.min_dist,
                     risk |-> r.risk])]
    /\ UNCHANGED nonSensorVars

SensorNext ==
    \/ SensorSetup
    \/ SensorCleanup
    \/ ReadSensor
    \/ CheckCollisionRisk

SpecSensor == SensorInit /\ [][SensorNext]_vars

---------------------------------------------------------------------------
(* Claims about MotorController *)

\* C1 as stated: a check_watchdog() call made when more than
\* watchdog_timeout has elapsed since last_command_time performs
\* emergency_stop() and resets the clock to now; a call made while
\* elapsed <= watchdog_timeout performs no stop and changes nothing; two
\* consecutive watchdog stops are more than watchdog_timeout apart.
C1_AsStated ==
    [][Called("check_watchdog") =>
        IF now - motors.last_command_time > watchdog_timeout
        THEN /\ last'.estop
             /\ MotorsStopped(gpio')
             /\ motors'.last_command_time = now'
             /\ wd_stop # -1 => now - wd_stop > watchdog_timeout
        ELSE /\ ~last'.estop
             /\ motors' = motors
             /\ gpio' = gpio]_vars

\* C1 (amended): on an initialized controller, a check_watchdog() call made
\* when more than watchdog_timeout has elapsed since last_command_time
\* performs emergency_stop(), leaves all outputs stopped and resets the
\* clock to now; every other check_watchdog() call (elapsed <=
\* watchdog_timeout, or controller not initialized) performs no stop and
\* changes nothing; two consecutive watchdog stops are more than
\* watchdog_timeout apart.
C1_WatchdogOncePerWindow ==
    [][Called("check_watchdog") =>
        IF motors.initialized /\ now - motors.last_command_time > watchdog_timeout
        THEN /\ last'.estop
             /\ MotorsStopped(gpio')
             /\ motors'.last_command_time = now'
             /\ wd_stop # -1 => now - wd_stop > watchdog_timeout
        ELSE /\ ~last'.estop
             /\ motors' = motors
             /\ gpio' = gpio]_vars

\* the watchdog has fired twice, the second time on running motors
C1_Witness ==
    /\ last.op = "check_watchdog"
    /\ last.estop
    /\ last.changed
    /\ wd_gap # -1

\* C3: when a physical output operation fails at any point during
\* execute_command, emergency_stop() is invoked before execute_command
\* returns, no exception reaches the caller, and no output is left driven.
C3_FaultFallsBackToStop ==
    (last.op = "execute_command" /\ last.failed) =>
        /\ last.estop
        /\ ~last.raised
        /\ MotorsStopped(gpio)

\* the left group was applied in full and a write of the right group failed
C3_Witness ==
    /\ last.op = "execute_command"
    /\ last.failed
    /\ last.groups = 1
    /\ last.estop

\* C4: emergency_stop() called in any state does not raise, leaves every
\* direction output low and every duty cycle 0, changes neither initialized
\* nor last_command_time, and calling it again changes nothing more.
C4_EmergencyStopIdempotent ==
    [][Called("emergency_stop") =>
        /\ ~last'.raised
        /\ MotorsStopped(gpio')
        /\ motors'.initialized = motors.initialized
        /\ motors'.last_command_time = motors.last_command_time
        /\ LET again == emergency_stop(motors', gpio')
           IN  /\ ~again.raised
               /\ again.self = motors'
               /\ again.gpio = gpio']_vars

\* emergency_stop() has just stopped running motors
C4_Witness ==
    /\ last.op = "emergency_stop"
    /\ last.changed

---------------------------------------------------------------------------
(* Claims about the rover control loop *)

\* no command has been applied for longer than the watchdog timeout
Stale == now - motors.last_command_time > watchdog_timeout

\* C2: in CarHardware.run, whenever the motors are running and no command
\* has been applied for longer than the watchdog timeout, the motors are
\* eventually stopped (or a new command is applied), whatever path the loop
\* body takes.
C2_StaleMotorsEventuallyStop ==
    (InRun /\ ~MotorsStopped(gpio) /\ Stale) ~> (MotorsStopped(gpio) \/ ~Stale)

\* C5: while the control loop is in reconnect_loop() every motor output is
\* stopped, and a motor command is only ever applied while the session is
\* connected.
C5_StoppedWhileReconnecting ==
    /\ [](pc \in {"connect", "reconnect"} => MotorsStopped(gpio))
    /\ [][Called("execute_command") => network.connected /\ pc = "recv"]_vars

\* the loop is in reconnect_loop() after a connection on which the motors
\* were running was lost
C5_Witness ==
    /\ pc = "reconnect"
    /\ ~network.connected
    /\ last.op = "emergency_stop"
    /\ last.changed

\* the last receive_command read 6 bytes that from_bytes rejects
MalformedRead ==
    /\ rx # None
    /\ rx.kind = "data"
    /\ (rx.data[3] \notin {0, 1, 2} \/ rx.data[4] \notin {0, 1, 2})

\* C6: a 6-byte command whose direction byte is outside {0,1,2} is never
\* applied to the motors (the read changes no output and yields no command,
\* and marks the session disconnected), and afterwards the motors are
\* driven to the stopped state.
C6_MalformedCommandStops ==
    /\ [][(pc = "recv" /\ pc' = "watchdog" /\ MalformedRead') =>
            /\ command' = None
            /\ ~network'.connected
            /\ UNCHANGED <<motors, gpio, last>>]_vars
    /\ (pc = "watchdog" /\ MalformedRead) ~> MotorsStopped(gpio)

\* a malformed command has been read while the motors were running
C6_Witness ==
    /\ pc = "watchdog"
    /\ MalformedRead
    /\ ~MotorsStopped(gpio)

---------------------------------------------------------------------------
(* Claims about the frame queue *)

EventsOf(op) == SelectSeq(events, LAMBDA e : e.op = op)
Items(es) == [i \in 1..Len(es) |-> es[i].item]
Delivered == SelectSeq(Items(EventsOf("get")), LAMBDA x : x # None)

\* the first three queue operations that are not drops are puts, and no
\* further push has touched the queue (the third push made the only drop):
\* three payloads pushed with no get in between, and nothing pushed since
ThreePushesThenGets ==
    LET ops == SelectSeq(events, LAMBDA e : e.op # "drop")
    IN  /\ Len(EventsOf("put")) = 3
        /\ \A i \in 1..3 : ops[i].op = "put"
        /\ Len(EventsOf("drop")) = 1

\* C7: after 3 payloads p1, p2, p3 are pushed with no get_frame in between,
\* the following get_frame calls return p2, then p3, then none.
C7_ThreePushesKeepLastTwo ==
    ThreePushesThenGets =>
        LET p == Items(EventsOf("put"))
            got == Items(EventsOf("get"))
            expected == <<p[2], p[3]>> \o [i \in 1..MaxGets |-> None]
        IN  /\ \A i \in 1..Len(got) : got[i] = expected[i]
            /\ rthread \in {"loop", "header", "exited"} =>
                 frame_queue = SubSeq(<<p[2], p[3]>>, Len(got) + 1, 2)

\* three payloads were pushed, then three get_frame calls were made
C7_Witness ==
    /\ ThreePushesThenGets
    /\ Len(EventsOf("get")) = 3

\* C8: the payloads get_frame returns are in arrival order and none is
\* returned twice: they form a subsequence of the arrival sequence.
C8_DeliveryInArrivalOrder ==
    /\ \A i \in 1..Len(Delivered) : Delivered[i].id \in 1..arrived
    /\ \A i, j \in 1..Len(Delivered) : i < j => Delivered[i].id < Delivered[j].id

\* a get_frame ran between the failed put and the discard, and frames were
\* delivered on both sides of a dropped one
C8_Witness ==
    /\ Len(Delivered) >= 2
    /\ \E i \in 1..Len(events) : events[i].op = "drop"
    /\ Delivered[2].id > Delivered[1].id + 1

---------------------------------------------------------------------------
(* Claims about the command codec *)

\* C9: for every MotorCommand c with speeds in 0..255, directions in
\* {Backward, Forward, Stop} and duration_ms in 0..65535,
\* from_bytes(to_bytes(c)) equals c in all five fields.
C9_CommandRoundTrip ==
    (codec.step = "decoded" /\ validate(codec.cmd)) => codec.out = codec.cmd

\* a command whose duration needs both bytes has made the round trip
C9_Witness ==
    /\ codec.step = "decoded"
    /\ validate(codec.cmd)
    /\ codec.cmd.duration_ms = 65535
    /\ codec.cmd.left_speed = 255

C11_InvalidCommandNeverSent ==
    (codec.step \in {"encoded", "sent"} /\ ~validate(codec.cmd)) =>
        /\ codec.step = "encoded" => codec.wire = ValueError
        /\ codec.step = "sent" => (codec.wire = <<>> /\ codec.out = FALSE)

\* send_command was called with a command whose only fault is a duration
\* one above the u16 range
C11_Witness ==
    /\ codec.step = "sent"
    /\ codec.cmd = MotorCommand(200, 200, FORWARD, FORWARD, 65536)

\* C12: from_bytes fails for every input whose length is not 6 and for
\* every 6-byte input with a direction byte of 3 or more; for every other
\* 6-byte input it returns a command that satisfies the field bounds and
\* that to_bytes turns back into the same 6 bytes.
C12_DecodeTotality ==
    codec.step \in {"parsed", "reencoded"} =>
        IF Len(codec.wire) # 6 \/ codec.wire[3] >= 3 \/ codec.wire[4] >= 3
        THEN codec.out = ValueError
        ELSE /\ codec.out # ValueError
             /\ validate(codec.out)
             /\ codec.step = "reencoded" => codec.back = codec.wire

\* six bytes with the largest speed and duration were decoded and encoded
C12_Witness ==
    /\ codec.step = "reencoded"
    /\ codec.wire = <<255, 0, 2, 0, 255, 255>>

\* C13: for every payload of length L, 0 <= L <= MAX_FRAME_SIZE,
\* encode_frame(payload) is L + 4 bytes long, decode_frame_size of its first
\* 4 bytes is L and its bytes from offset 4 on are the payload;
\* decode_frame_size fails for a header whose length is not 4.
C13_FrameRoundTrip ==
    /\ (codec.step \in {"framed", "unframed"}
          /\ ByteLen(codec.payload) <= MAX_FRAME_SIZE) =>
            /\ ByteLen(codec.frame) = ByteLen(codec.payload) + 4
            /\ codec.step = "unframed" =>
                  /\ codec.size = Return(ByteLen(codec.payload))
                  /\ codec.rest = codec.payload
    /\ codec.step = "header_decoded" =>
          (codec.size = ValueError <=> Len(codec.header) # 4)

\* a payload of exactly MAX_FRAME_SIZE bytes, in two runs, made the round trip
C13_Witness ==
    /\ codec.step = "unframed"
    /\ Len(codec.payload) = 2
    /\ ByteLen(codec.payload) = MAX_FRAME_SIZE

\* C14: when _receive_loop decodes a header whose declared length exceeds
\* MAX_FRAME_SIZE, it reads no payload for that frame, puts nothing on the
\* frame queue, ends the loop (for good) and running becomes false.
C14_OversizedFrameEndsSession ==
    /\ [][(rthread = "header" /\ arrived' = arrived + 1
            /\ frame_size' > MAX_FRAME_SIZE) =>
              /\ rthread' = "exited"
              /\ ~conn_running'
              /\ UNCHANGED <<frame_queue, frame_data, events>>]_vars
    /\ [](rthread \in {"payload", "put", "discard", "put2"} =>
            frame_size <= MAX_FRAME_SIZE)
    /\ [][rthread = "exited" =>
            (rthread' = "exited" /\ ~conn_running'
             /\ EventsOf("put")' = EventsOf("put"))]_vars

\* the second frame declared one byte more than MAX_FRAME_SIZE while the
\* first frame was still queued
C14_Witness ==
    /\ rthread = "exited"
    /\ arrived = 2
    /\ frame_size = MAX_FRAME_SIZE + 1
    /\ Len(frame_queue) = 1

---------------------------------------------------------------------------
(* Claims about NetworkClient *)

\* C15: receive_command on a connected session marks it disconnected when
\* the stream closed or failed and when the timeout expired after at least
\* one byte of a command had been read; a timeout with no byte read
\* returns None and leaves it connected; so no byte of a partly received
\* command is dropped while the session stays connected.
C15_PartialCommandDisconnects ==
    [][(ClientCalled("receive_command") /\ network.connected
         /\ network.socket # "none") =>
          /\ (rx'.kind \in {"closed", "error"}
                \/ (rx'.kind = "timeout" /\ rx'.n > 0)) =>
                  (~network'.connected /\ ncall'.ret = None)
          /\ (rx'.kind = "timeout" /\ rx'.n = 0) =>
                  (network'.connected /\ ncall'.ret = None)
          /\ network'.connected => ncall'.dropped = 0]_vars

\* C16: send_frame on a disconnected session calls no sendall() and returns
\* False; when the write fails it sets connected to False and returns
\* False, keeping the stream it has (no reconnection); when the write
\* succeeds it returns True and leaves the session as it is, connected.
C16_SendFrameOutcomes ==
    [][ClientCalled("send_frame") =>
        IF ~network.connected \/ network.socket = "none"
        THEN /\ ~ncall'.sendall
             /\ ncall'.ret = FALSE
             /\ network' = network
        ELSE /\ ncall'.sendall
             /\ IF ncall'.ret
                THEN network' = network
                ELSE /\ ~network'.connected
                     /\ network'.socket = network.socket]_vars

\* a write has failed on a connected session
C16_Witness ==
    /\ ncall.op = "send_frame"
    /\ ncall.sendall
    /\ ncall.ret = FALSE
    /\ ~network.connected
    /\ network.socket = "open"

\* C17: reconnect_loop() returns only with the session connected; while
\* the session is disconnected every round is one connect() attempt, which
\* either succeeds, and the loop returns at once, or fails, leaving
\* connected False and no stream held, and the loop goes on.
C17_ReconnectLoopReturnsConnected ==
    /\ [][(pc = "reconnect_loop" /\ pc' # "reconnect_loop") =>
            (pc' = "client" /\ network'.connected)]_vars
    /\ [][(pc = "reconnect_loop" /\ ~network.connected) =>
            \/ /\ network'.connected
               /\ network'.socket = "open"
               /\ pc' = "client"
            \/ /\ ~network'.connected
               /\ network'.socket = "none"
               /\ pc' = "reconnect_loop"]_vars

\* reconnect_loop() was called on a session that had lost its stream, and
\* has returned
C17_Witness ==
    /\ ncall.op = "reconnect_loop"
    /\ pc = "client"
    /\ network.connected
    /\ rx # None /\ rx.kind = "closed"

---------------------------------------------------------------------------
(* Claims about the MotorController lifecycle *)

\* C18: execute_command called before setup() has run, or after cleanup()
\* has run, in hardware mode or in simulation mode, is rejected and changes
\* neither the outputs nor last_command_time.
C18_NoEffectOutsideLifecycle ==
    [][(Called("execute_command") /\ last.life # "setup") =>
          /\ last'.rejected
          /\ gpio' = gpio
          /\ motors'.last_command_time = motors.last_command_time]_vars

---------------------------------------------------------------------------
(* Claims about the connection registry *)

\* C19: get_active_connection() returns None when every registered
\* connection is dead when the pruning starts, and only when every one is
\* dead when it ends; otherwise it returns a registered connection that was
\* live and is now first in the registry, every connection accepted before
\* it being dead; and the registry after the call holds no connection that
\* was dead when the pruning started.
C19_ActiveIsEarliestLive ==
    [][ServerCalled("get_active_connection") =>
          LET registry == Range(server.connections)
              ret == server'.call.ret
          IN  /\ (\A c \in registry : ~server.alive[c]) => ret = None
              /\ ret = None => \A c \in registry : ~server'.alive[c]
              /\ ret # None =>
                    /\ ret.value \in registry
                    /\ server.alive[ret.value]
                    /\ \A c \in registry : c < ret.value => ~server'.alive[c]
                    /\ server'.connections[1] = ret.value
              /\ \A c \in Range(server'.connections) :
                    c \in registry /\ server.alive[c]]_vars

\* of three registered connections the first had ended: the call has
\* returned the second and kept the second and the third
C19_Witness ==
    /\ server.call.op = "get_active_connection"
    /\ server.call.ret = Return(2)
    /\ server.connections = <<2, 3>>
    /\ ~server.alive[1]
    /\ server.alive[2]

---------------------------------------------------------------------------
(* Claims about parse_response *)

\* C20: for a text whose first COMMAND: is followed by a blank and four
\* non-negative integers a,b,c,d separated by commas, parse_response
\* returns the command (min(a,255), min(b,255), min(c,2), min(d,2)) with
\* duration 0, never no command; and the reasoning it returns is the text
\* that follows the first REASONING: (in any case) up to the end of that
\* line, without the blanks around it, or the empty text when there is no
\* REASONING: or nothing but blanks after it on its line.
C20_PrimaryParseClamps ==
    codec.step = "parsed" =>
        LET text == codec.response
            At(tok) == {p \in 1..Len(text) : text[p].t \in tok}
            First(S) == CHOOSE p \in S : \A q \in S : p <= q
            Last(S) == CHOOSE p \in S : \A q \in S : p >= q
            c == First(At({"COMMAND:"}))
            r == First(At({"REASONING:", "reasoning:"}))
            eol == First({p \in At({"nl"}) : p > r} \cup {Len(text) + 1})
            said == {p \in (r + 1)..(eol - 1) : text[p].t # "sp"}
            on_its_line == IF At({"REASONING:", "reasoning:"}) = {} \/ said = {}
                           THEN <<>>
                           ELSE SubSeq(text, First(said), Last(said))
        IN  (/\ At({"COMMAND:"}) # {}
             /\ c + 8 <= Len(text)
             /\ [k \in 1..8 |-> text[c + k].t] =
                    <<"sp", "num", ",", "num", ",", "num", ",", "num">>)
            => /\ codec.command =
                     MotorCommand(min(text[c + 2].v, 255), min(text[c + 4].v, 255),
                                  min(text[c + 6].v, 2), min(text[c + 8].v, 2), 0)
               /\ codec.reasoning = on_its_line

\* C21: for a text in which the primary COMMAND pattern has no match,
\* parse_response returns the command built from the first four standalone
\* integers a,b,c,d of the text (runs of digits with no letter or digit
\* next to them), clamped as (min(a,255), min(b,255), min(c,2), min(d,2)),
\* and returns no command when the text has fewer than four of them.
C21_FallbackFirstFourIntegers ==
    (codec.step = "parsed" /\ command_search(codec.response, 1) = None) =>
        LET text == codec.response
            standalone ==
                {p \in 1..Len(text) :
                    /\ text[p].t = "num"
                    /\ (p > 1 => text[p - 1].t \notin {"num", "word"})
                    /\ (p < Len(text) => text[p + 1].t \in {"sp", "nl", ","})}
            \* the k-th standalone integer of the text
            nth(k) == CHOOSE p \in standalone :
                          Cardinality({q \in standalone : q < p}) = k - 1
        IN  IF Cardinality(standalone) < 4
            THEN codec.command = None
            ELSE codec.command =
                     MotorCommand(min(text[nth(1)].v, 255), min(text[nth(2)].v, 255),
                                  min(text[nth(3)].v, 2), min(text[nth(4)].v, 2), 0)

---------------------------------------------------------------------------
(* Claims about the AI control loop *)

\* C22: in every round of run_ai_control in which the oracle returned a
\* response for a frame and parse_response yields no command for it,
\* send_command is called on the connection with the stop command
\* (speeds 0/0, directions Stop/Stop).
C22_NoCommandSendsStop ==
    LET step == controller.step
    IN  (/\ step.frame
         /\ step.response # None
         /\ parse_response(step.response.value, controller.limited).command = None)
        => step.send_command = Return(MotorCommand(0, 0, STOP, STOP, 0))

\* a round whose response holds no command has sent the stop command
C22_Witness ==
    /\ controller.step.frame
    /\ controller.step.response # None
    /\ controller.step.parsed.command = None
    /\ controller.step.send_command = Return(stop)
    /\ controller.step.sent

---------------------------------------------------------------------------
(* Claims about UltrasonicSensors *)

\* C23: when read_sensor has measured a pulse, with d = pulse width x
\* speed of sound / 2: the reading is invalid with distance d when d is
\* below the configured minimum, invalid with the configured maximum as
\* distance when d is above the maximum, and valid with distance d
\* otherwise.
C23_RangeClassification ==
    (sensors.call.op = "read_sensor" /\ sensors.call.pulse_duration >= 0) =>
        LET reading == sensors.call.reading
            \* d in 1/20000 cm: pulse width in us x 0.0343 cm/us / 2
            d == sensors.call.pulse_duration * 343
            minimum == ultrasonic_min_distance * 20000
            maximum == ultrasonic_max_distance * 20000
        IN  /\ d < minimum => (~reading.valid /\ reading.distance_cm = d)
            /\ d > maximum => (~reading.valid /\ reading.distance_cm = maximum)
            /\ (minimum <= d /\ d <= maximum) =>
                   (reading.valid /\ reading.distance_cm = d)

\* an echo from 500 cm has been read as an invalid reading of 400 cm
C23_Witness ==
    /\ sensors.call.op = "read_sensor"
    /\ sensors.call.pulse_duration = 29155
    /\ ~sensors.call.reading.valid
    /\ sensors.call.reading.distance_cm = 400 * 20000

\* C24 as stated: every read_sensor call returns a reading, and the reading
\* is invalid when the polls did not see the echo start within the
\* timeout, or did not see it end within the timeout, or a GPIO operation
\* failed, or the key is unknown, or the array is not initialized; and each
\* polling loop returns at the first poll whose clock reading lies more
\* than the timeout after the loop's start.
C24_AsStated ==
    [][SensorCalled("read_sensor") =>
          LET call == sensors'.call
          IN  /\ (\/ call.late1 # 0
                  \/ call.late2 # 0
                  \/ call.fault # "none"
                  \/ call.key \notin SENSORS
                  \/ ~sensors.initialized) => ~call.reading.valid
              /\ call.late1 # 0 => call.polls1 <= call.late1
              /\ call.late2 # 0 => call.polls2 <= call.late2]_vars

\* C24 (amended): the same for an array that drives hardware; an array in
\* simulation mode returns a valid reading whatever the key and whether set
\* up or not.
C24_InvalidOnFailure ==
    [][SensorCalled("read_sensor") =>
          LET call == sensors'.call
          IN  IF sensors.simulate THEN call.reading.valid
              ELSE /\ (\/ call.late1 # 0
                       \/ call.late2 # 0
                       \/ call.fault # "none"
                       \/ call.key \notin SENSORS
                       \/ ~sensors.initialized) => ~call.reading.valid
                   /\ call.late1 # 0 => call.polls1 <= call.late1
                   /\ call.late2 # 0 => call.polls2 <= call.late2]_vars

\* on an initialized hardware array the echo did not end within the
\* timeout: the second loop returned at its first late poll, after an
\* earlier poll in time, with an invalid reading
C24_Witness ==
    /\ ~sensors.simulate
    /\ sensors.initialized
    /\ sensors.call.op = "read_sensor"
    /\ sensors.call.key \in SENSORS
    /\ sensors.call.late2 = 2
    /\ sensors.call.polls2 = 2
    /\ ~sensors.call.reading.valid

\* C25: after check_collision_risk(direction) the aggregate of the zone
\* that was read (FC, FL, FR for "forward", RL, RR otherwise) is the least
\* distance among its valid readings, or the maximum range when none is
\* valid, and the answer is true exactly when the aggregate is below the
\* stop distance; a zone with no valid reading answers false.
C25_ZoneAggregation ==
    sensors.call.op = "check_collision_risk" =>
        LET call == sensors.call
            zone == IF call.direction = "forward" THEN {"FC", "FL", "FR"}
                                                  ELSE {"RL", "RR"}
            valid == {key \in zone : call.readings[key].valid}
        IN  /\ DOMAIN call.readings = zone
            /\ valid = {} => call.min_dist = 400 * 20000 /\ ~call.risk
            /\ valid # {} =>
                   /\ \E key \in valid : call.min_dist = call.readings[key].distance_cm
                   /\ \A key \in valid : call.min_dist <= call.readings[key].distance_cm
            /\ call.risk <=> call.min_dist < 15 * 20000

\* a forward check in which FC is invalid at under 2 cm, FL valid at about
\* 100 cm and FR without an echo: the aggregate is FL's and no risk
C25_Witness ==
    /\ sensors.call.op = "check_collision_risk"
    /\ sensors.call.direction = "forward"
    /\ ~sensors.call.readings["FC"].valid
    /\ sensors.call.readings["FC"].distance_cm = 58 * 343
    /\ sensors.call.readings["FL"].valid
    /\ ~sensors.call.readings["FR"].valid
    /\ sensors.call.min_dist = 5831 * 343
    /\ ~sensors.call.risk

---------------------------------------------------------------------------
(* Claims about the frame queue of CarConnection *)

\* C26: a header that declares a length from 0 to MAX_FRAME_SIZE takes the
\* receive thread on to the payload, and once the bytes of such a payload
\* have been read from the stream the thread goes on to push it, with the
\* connection still running as far as the thread is concerned.
C26_EveryLengthUpToMaxAccepted ==
    [][/\ (rthread = "header" /\ arrived' = arrived + 1 /\ frame_size' <= MAX_FRAME_SIZE)
            => (rthread' = "payload" /\ conn_running' = conn_running)
       /\ (rthread = "payload" /\ rthread' # "payload" /\ frame_data' # None)
            => (rthread' = "put" /\ conn_running' = conn_running)]_vars

\* C27: the queue never holds more than 2 payloads; the first put_nowait
\* either enqueues the new payload or finds the queue full and goes on to
\* the discard; the put_nowait after the discard always enqueues the new
\* payload and the receive thread goes on to the next header, whatever
\* get_frame calls come in between.
C27_PushNeverFails ==
    [][/\ Len(frame_queue') <= 2
       /\ (rthread = "put" /\ rthread' # "put") =>
              \/ rthread' = "loop" /\ frame_queue' = Append(frame_queue, frame_data)
              \/ rthread' = "discard" /\ Len(frame_queue) = 2 /\ frame_queue' = frame_queue
       /\ (rthread = "put2" /\ rthread' # "put2") =>
              /\ rthread' = "loop"
              /\ conn_running' = conn_running
              /\ frame_queue' = Append(frame_queue, frame_data)]_vars

\* the push that found the queue full has discarded, a get_frame came in
\* before the second put_nowait, and the payload is enqueued
C27_Witness ==
    /\ rthread = "loop"
    /\ Len(events) >= 3
    /\ events[Len(events) - 2].op = "drop"
    /\ events[Len(events) - 1].op = "get"
    /\ events[Len(events)] = [op |-> "put", item |-> frame_data]
    /\ frame_queue = <<frame_data>>

\* C28: the discard step of the receive thread removes a payload only when
\* the queue holds 2 payloads at that moment; when a get_frame has freed a
\* slot since the failed put_nowait, the discard removes nothing.
C28_DiscardOnlyWhenFull ==
    [][(rthread = "discard" /\ rthread' = "put2") =>
          (Len(frame_queue) = 2 \/ frame_queue' = frame_queue)]_vars

---------------------------------------------------------------------------
(* Claims about the registry lock of NetworkServer *)

\* C29: whatever NetworkServer call ran last (the accept loop,
\* get_active_connection, broadcast_command, stop), everything it did while
\* holding self.lock was a read or an update of the registry: no write to
\* a stream, no close of a stream, no join of a thread.
C29_LockHeldOnlyForRegistry ==
    \A i \in DOMAIN server.call.held :
        /\ server.call.held[i].op \notin {"sendall", "close", "join"}
        /\ server.call.held[i].op \in {"prune", "append", "read", "clear"}

\* C30: every call that accesses the registry leaves in it no connection
\* that was dead when the call started; broadcast_command writes only to
\* connections that are alive, and the count it returns is the number of
\* live connections its write to succeeded.
C30_DeadConnectionsRemovedFirst ==
    [][(server'.call.seq # server.call.seq /\ server'.call.op # "start") =>
          LET call == server'.call
              writes == {i \in DOMAIN call.held : call.held[i].op = "sendall"}
          IN  /\ \A c \in Range(server'.connections) :
                     c # server.car_conn => server.alive[c]
              /\ call.op = "broadcast_command" =>
                     /\ \A i \in writes : server.alive[call.held[i].conn]
                     /\ call.ret.value =
                            Cardinality({i \in writes :
                                            /\ call.held[i].ok
                                            /\ server.alive[call.held[i].conn]})]_vars

---------------------------------------------------------------------------
(* Claims about shutdown *)

\* C31: stop() closes the socket only after the receive thread has ended,
\* and the receive thread never makes a read (of a header, or of a payload
\* of one byte or more) on a socket that stop() has closed.
C31_CloseAfterReceiveThreadEnds ==
    /\ [](sock.closed => rthread = "exited")
    /\ [][(\/ rthread = "header" /\ rthread' # "header"
           \/ rthread = "payload" /\ rthread' # "payload" /\ frame_size > 0)
            => ~sock.closed]_vars

---------------------------------------------------------------------------
(* Further claims about MotorController *)

\* C32: an execute_command that is rejected, or whose output fails and
\* falls back to emergency_stop, leaves last_command_time as it was; and
\* last_command_time changes only in an execute_command that applied its
\* command or in a check_watchdog that stopped the motors.
C32_StampOnlyOnSuccess ==
    [][/\ (Called("execute_command") /\ (last'.rejected \/ last'.failed))
            => motors'.last_command_time = motors.last_command_time
       /\ motors'.last_command_time # motors.last_command_time
            => \/ Called("execute_command") /\ ~last'.rejected /\ ~last'.failed
               \/ Called("check_watchdog") /\ last'.estop]_vars

\* C33: after an execute_command(c) that applied c, the left and the right
\* wheel group each show their own direction and speed: FORWARD has the
\* forward pins HIGH and the backward pins LOW, BACKWARD the reverse, both
\* with duty speed * 100 / 255; STOP has every direction pin LOW and duty 0
\* whatever the speed; the duty is within 0 .. 100, 0 for speed 0 and 100
\* for speed 255.  (gpio.duty holds the duty times 255.)
C33_GroupOutputsFollowCommand ==
    [][(Called("execute_command") /\ ~last'.rejected /\ ~last'.failed) =>
          LET c == last'.cmd
              Levels(ps, value) == \A p \in Range(ps) : gpio'.level[p] = value
              Duty(ps, value) == \A p \in Range(ps) : gpio'.duty[p] = value
              Group(fwd, bwd, pwm, speed, direction) ==
                  /\ direction = 1 =>
                        Levels(fwd, 1) /\ Levels(bwd, 0) /\ Duty(pwm, speed * 100)
                  /\ direction = 0 =>
                        Levels(fwd, 0) /\ Levels(bwd, 1) /\ Duty(pwm, speed * 100)
                  /\ direction = 2 =>
                        Levels(fwd, 0) /\ Levels(bwd, 0) /\ Duty(pwm, 0)
                  /\ \A p \in Range(pwm) :
                        /\ gpio'.duty[p] >= 0 /\ gpio'.duty[p] <= 100 * 255
                        /\ (direction # 2 /\ speed = 0) => gpio'.duty[p] = 0
                        /\ (direction # 2 /\ speed = 255) => gpio'.duty[p] = 100 * 255
          IN  /\ Group(forward_pins_left, backward_pins_left, pwm_pins_left,
                       c.left_speed, c.left_dir)
              /\ Group(forward_pins_right, backward_pins_right, pwm_pins_right,
                       c.right_speed, c.right_dir)]_vars

\* the left group was stopped with speed 255 commanded while the right
\* group runs backward at speed 127
C33_Witness ==
    /\ last.op = "execute_command"
    /\ ~last.rejected /\ ~last.failed
    /\ last.cmd.left_dir = 2 /\ last.cmd.left_speed = 255
    /\ last.cmd.right_dir = 0 /\ last.cmd.right_speed = 127
    /\ \A p \in Range(pwm_pins_left) : gpio.duty[p] = 0
    /\ \A p \in Range(pwm_pins_right) : gpio.duty[p] = 12700
    /\ \A p \in Range(backward_pins_right) : gpio.level[p] = 1

---------------------------------------------------------------------------
(* Further claims about the AI control loop *)

\* C34: in a round of the control loop that got a frame and a response
\* from which parse_response extracts a command, send_command is called
\* with exactly that command; the stop command is what is sent only when
\* the oracle call failed, or no command could be extracted, or the stop
\* command is the command extracted.
C34_ExtractedCommandIsSent ==
    LET step == controller.step
        extracted == parse_response(step.response.value, controller.limited).command
    IN  (step.frame /\ step.response # None) =>
            /\ extracted # None => step.send_command = Return(extracted)
            /\ step.send_command = Return(MotorCommand(0, 0, STOP, STOP, 0)) =>
                   (extracted = None \/ extracted = MotorCommand(0, 0, STOP, STOP, 0))

---------------------------------------------------------------------------
(* Further claims about the rover control loop *)

\* C35: the step of the rover loop that receives a command driving both
\* wheel groups forward leaves no forward pin HIGH when the front sensors
\* see an obstacle nearer than the stop distance.  The loop takes no input
\* from the sensors, so the echoes are any the front zone can return to an
\* array that is set up.
C35_NoForwardIntoObstacle ==
    [][(/\ pc = "recv"
        /\ command' # None
        /\ command'.left_dir = 1 /\ command'.right_dir = 1) =>
          LET array == [UltrasonicSensorsInit(FALSE) EXCEPT !.initialized = TRUE]
          IN  \A echoes \in [{"FC", "FL", "FR"} -> ZoneEchoes] :
                check_collision_risk(array, "forward", echoes, now).risk =>
                    \A p \in Range(forward_pins_left) \cup Range(forward_pins_right) :
                        gpio'.level[p] = 0]_vars

---------------------------------------------------------------------------
(* Further claims about NetworkClient *)

\* C36: a connected session holds a stream, and when connect() is called
\* on a session that is not connected the session holds no stream any
\* more: the stream of the previous connection has been closed and
\* released before the new one is installed.
C36_OldStreamClosedBeforeConnect ==
    /\ [](network.connected => network.socket = "open")
    /\ [][(ClientCalled("connect") /\ ~network.connected)
            => network.socket = "none"]_vars

\* C37: in every state, those between the single writes of an
\* execute_command included, no wheel has its forward output and its
\* backward output HIGH together.
C37_NeverBothDirectionsHigh ==
    \A wheel \in {"fl", "fr", "rl", "rr"} :
        LET level(name) ==
                gpio.level[CHOOSE p \in Range(pins) :
                    \/ wheel = "fl" /\ p = IF name = "f" THEN "fl_forward" ELSE "fl_backward"
                    \/ wheel = "fr" /\ p = IF name = "f" THEN "fr_forward" ELSE "fr_backward"
                    \/ wheel = "rl" /\ p = IF name = "f" THEN "rl_forward" ELSE "rl_backward"
                    \/ wheel = "rr" /\ p = IF name = "f" THEN "rr_forward" ELSE "rr_backward"]
        IN  ~(level("f") = 1 /\ level("b") = 1)

---------------------------------------------------------------------------
(* Claims about NetworkServer.stop *)

\* C38: once stop() has returned the registry is empty, and every
\* connection that was ever accepted has been stopped: none has a running
\* receive thread.
C38_NothingLeftAfterStop ==
    server.stop = "returned" =>
        /\ server.connections = <<>>
        /\ \A c \in Accepted : ~server.alive[c]

---------------------------------------------------------------------------
(* Further claims about parse_response *)

\* C39: parse_response returns for every text, and a command it returns,
\* from the COMMAND: pattern or from the fallback, has both speeds in
\* 0..255, both directions in {0, 1, 2} and duration 0, so that to_bytes
\* of it raises nothing.
C39_ParsedCommandEncodes ==
    codec.step = "parsed" =>
        /\ codec.command # ValueError
        /\ codec.command # None =>
              /\ codec.command.left_speed \in 0..255
              /\ codec.command.right_speed \in 0..255
              /\ codec.command.left_dir \in {0, 1, 2}
              /\ codec.command.right_dir \in {0, 1, 2}
              /\ codec.command.duration_ms = 0
              /\ to_bytes(codec.command) # ValueError

\* a text of one line, COMMAND: 300,150,7,3, has given (255, 150, 2, 2)
C39_Witness ==
    /\ codec.step = "parsed"
    /\ codec.response = CommandLine(Num(300), Num(150), Num(7), Num(3))
    /\ codec.command = MotorCommand(255, 150, 2, 2, 0)

---------------------------------------------------------------------------
(* Claims about SimpleCommandParser *)

\* C40: SimpleCommandParser.parse raises for no command string: it returns
\* a MotorCommand or None; and it returns None for the empty string, for an
\* unknown name, for a known name followed by text that is no number, and
\* for a text with commas that is not four numbers of the numeric format.
C40_ParseNeverRaises ==
    codec.step = "parse" =>
        LET str == lower_strip(codec.command_str)
            names == {"stop", "s", "forward", "f", "fwd", "backward", "b", "back",
                      "left", "l", "rotate_left", "right", "r", "rotate_right"}
            known == str # <<>> /\ str[1] \in {Word(n) : n \in names}
            has_comma == \E i \in DOMAIN str : str[i].t = ","
        IN  /\ codec.command # ValueError
            /\ str = <<>> => codec.command = None
            /\ (str # <<>> /\ ~known /\ ~has_comma) => codec.command = None
            /\ (known /\ Len(str) = 3 /\ str[3].t = "word") => codec.command = None
            /\ (has_comma /\ \E i \in DOMAIN str : str[i].t = "word")
                   => codec.command = None

===========================================================================
